---- MODULE Spec2Model ----
(***************************************************************************)
(* Model of the roulette backtesting engine: the wheel and its paytable    *)
(* (game/roulette.py, game/session.py), the betting strategies             *)
(* (strategy/*.py), the session loop that drives one strategy              *)
(* (GameSession.play_until_bankruptcy) and the Simulator that runs and     *)
(* analyses batches of sessions (analysis/simulator.py); and, each run on   *)
(* its own, RouletteSimulator.simulate_martingale (utils/simulation.py),   *)
(* AdvancedBettingStrategy.execute_strategy (strategies/advanced.py) and   *)
(* History.update_strategy_history (analysis/history.py).                  *)
(*                                                                         *)
(* Quotients (rates and averages) are kept exact, as fractions.            *)
(* Money is modelled with integers.  The inputs are chosen so that every   *)
(* amount the code computes is a whole number (initial bankrolls are       *)
(* multiples of 10, so that initial_bankroll * 0.1 is exact; James Bond    *)
(* is driven with a unit of 18 and bankrolls that are multiples of 360).   *)
(***************************************************************************)
EXTENDS Integers, Sequences, FiniteSets, TLC

\* ------------------------------------------------------------------ bounds

\* The session loop has no spin budget of its own; the model stops it here.
MaxTicks == 12

\* The spin budget the caller configures (Simulator.max_spins).
MaxSpinsInput == 3

\* Stakes of the bets handed to the resolver on its own are 1..MaxStake.
MaxStake == 2

VARIABLES
    strategy,         \* the strategy object driven by the session
    is_active,        \* GameSession.is_active
    total_spins,      \* GameSession.total_spins
    wins,             \* GameSession.wins
    losses,           \* GameSession.losses
    bets,             \* the bet of the latest tick (label -> stake)
    bankroll_at_bet,  \* current_bankroll when that bet was recorded
    number,           \* the outcome handed to the resolver on its own (-1: none)
    winnings,         \* the net winnings of the latest tick
    max_spins,        \* Simulator.max_spins, the budget the caller asked for
    strategies,       \* Simulator.strategies, the prototype strategy objects
    num_simulations,  \* the argument of Simulator.run_simulations
    results,          \* the dictionary run_simulations builds, in insertion order
    analysis,         \* the dictionary analyze_results builds, in insertion order
    raised,           \* the exception the latest call raised ("none": it returned)
    pc,               \* the call the caller makes next
    spins,            \* GameSession.spins, the spin records (when they are kept)
    bankroll_history, \* GameSession.bankroll_history (kept with the records)
    keep_spins,       \* whether the specification keeps the spin records
    twin,             \* a second strategy object, the bet it returned last, and
                      \* the number of calls its caller has made
    frame,            \* the arguments and locals of a method that runs a
                      \* whole session in one call, and what it returned
    history           \* the History object and the file it saves itself to

\* The variables of the Simulator and of its caller.
simVars == <<strategies, num_simulations, results, analysis, raised, pc>>

vars == <<strategy, is_active, total_spins, wins, losses, bets,
          bankroll_at_bet, number, winnings, max_spins,
          strategies, num_simulations, results, analysis, raised, pc,
          spins, bankroll_history, keep_spins, twin, frame, history>>

\* ------------------------------------------------------------------ helpers

Min(a, b) == IF a < b THEN a ELSE b

Max(a, b) == IF a > b THEN a ELSE b

abs(a) == IF a < 0 THEN -a ELSE a

RECURSIVE Pow2(_)
Pow2(n) == IF n <= 0 THEN 1 ELSE 2 * Pow2(n - 1)

\* sum(bets.values())
RECURSIVE SumStakes(_, _)
SumStakes(b, keys) ==
    IF keys = {} THEN 0
    ELSE LET k == CHOOSE x \in keys : TRUE
         IN  b[k] + SumStakes(b, keys \ {k})

TotalBet(b) == SumStakes(b, DOMAIN b)

EmptyBet == <<>>

\* ------------------------------------------------------------------ Roulette

numbers == 0 .. 36

red_numbers == {32, 19, 21, 25, 34, 27, 36, 30, 23, 5, 16, 1, 14, 9, 18, 7, 12, 3}

black_numbers == {15, 4, 2, 17, 6, 13, 11, 8, 10, 24, 33, 20, 31, 22, 29, 28, 35, 26}

colors(n) ==
    IF n = 0 THEN "green"
    ELSE IF n \in red_numbers THEN "red"
    ELSE "black"

\* The even numbers by n % 2 alone: 0 among them.
even_numbers_with_zero == {n \in numbers : n % 2 = 0}

even_numbers == {n \in numbers : n # 0 /\ n % 2 = 0}

odd_numbers == {n \in numbers : n # 0 /\ n % 2 = 1}

zero == 0

streets == <<{1, 2, 3}, {4, 5, 6}, {7, 8, 9}, {10, 11, 12}, {13, 14, 15},
             {16, 17, 18}, {19, 20, 21}, {22, 23, 24}, {25, 26, 27},
             {28, 29, 30}, {31, 32, 33}, {34, 35, 36}>>

\* The keys of the corners dictionary, in its order; the value of each key
\* lists the same four numbers.
corners == <<<<1, 2, 4, 5>>, <<2, 3, 5, 6>>, <<4, 5, 7, 8>>, <<5, 6, 8, 9>>,
            <<7, 8, 10, 11>>, <<8, 9, 11, 12>>, <<10, 11, 13, 14>>,
            <<11, 12, 14, 15>>, <<13, 14, 16, 17>>, <<14, 15, 17, 18>>,
            <<16, 17, 19, 20>>, <<17, 18, 20, 21>>, <<19, 20, 22, 23>>,
            <<20, 21, 23, 24>>, <<22, 23, 25, 26>>, <<23, 24, 26, 27>>,
            <<25, 26, 28, 29>>, <<26, 27, 29, 30>>, <<28, 29, 31, 32>>,
            <<29, 30, 32, 33>>, <<31, 32, 34, 35>>, <<32, 33, 35, 36>>>>

CornerNumbers == [i \in 1 .. Len(corners) |->
                    {corners[i][1], corners[i][2], corners[i][3], corners[i][4]}]

\* Roulette.spin: random.choice(self.numbers)
spin == numbers

get_dozen(n) == IF n = 0 THEN 0 ELSE ((n - 1) \div 12) + 1

\* get_column without the "or 3": a multiple of 3 falls in no column.
get_column_plain_mod(n) == IF n = 0 THEN 0 ELSE n % 3

get_column(n) == IF n = 0 THEN 0 ELSE IF n % 3 # 0 THEN n % 3 ELSE 3

get_street(n) == IF n = 0 THEN 0 ELSE ((n - 1) \div 3) + 1

get_number_properties(n) ==
    [number  |-> n,
     color   |-> colors(n),
     is_even |-> n \in even_numbers,
     is_odd  |-> n \in odd_numbers,
     is_zero |-> n = zero,
     dozen   |-> get_dozen(n),
     column  |-> get_column(n),
     street  |-> get_street(n)]

\* ------------------------------------------------------------------ bet labels

\* f'street_{street_num}' for the keys 1..12 of the streets dictionary
StreetKeys ==
  <<"street_1", "street_2", "street_3", "street_4", "street_5",
    "street_6", "street_7", "street_8", "street_9",
    "street_10", "street_11", "street_12">>

\* f'corner_{corner_nums}' for the keys of the corners dictionary, in its
\* order: the repr of each tuple
CornerKeys ==
  <<"corner_(1, 2, 4, 5)", "corner_(2, 3, 5, 6)",
    "corner_(4, 5, 7, 8)", "corner_(5, 6, 8, 9)",
    "corner_(7, 8, 10, 11)", "corner_(8, 9, 11, 12)",
    "corner_(10, 11, 13, 14)", "corner_(11, 12, 14, 15)",
    "corner_(13, 14, 16, 17)", "corner_(14, 15, 17, 18)",
    "corner_(16, 17, 19, 20)", "corner_(17, 18, 20, 21)",
    "corner_(19, 20, 22, 23)", "corner_(20, 21, 23, 24)",
    "corner_(22, 23, 25, 26)", "corner_(23, 24, 26, 27)",
    "corner_(25, 26, 28, 29)", "corner_(26, 27, 29, 30)",
    "corner_(28, 29, 31, 32)", "corner_(29, 30, 32, 33)",
    "corner_(31, 32, 34, 35)", "corner_(32, 33, 35, 36)">>

\* ------------------------------------------------------------------ resolver

\* One "if key in bets and <cond>: winnings += bets[key] * mult" statement.
Pays(b, key, cond, mult) ==
    IF key \in DOMAIN b /\ cond THEN b[key] * mult ELSE 0

\* sum of b[keys[i]] * mult over the indices i in idx
RECURSIVE SumPays(_, _, _, _)
SumPays(b, keys, idx, mult) ==
    IF idx = {} THEN 0
    ELSE LET i == CHOOSE x \in idx : TRUE
         IN  b[keys[i]] * mult + SumPays(b, keys, idx \ {i}, mult)

\* The loop over self.roulette.streets.items()
StreetWinnings(b, np) ==
    SumPays(b, StreetKeys,
            {s \in 1 .. Len(streets) :
                StreetKeys[s] \in DOMAIN b /\ np.number \in streets[s]}, 12)

\* The loop over self.roulette.corners.items()
CornerWinnings(b, np) ==
    SumPays(b, CornerKeys,
            {i \in 1 .. Len(corners) :
                CornerKeys[i] \in DOMAIN b /\ np.number \in CornerNumbers[i]}, 9)

\* GameSession._calculate_winnings
calculate_winnings(b, np) ==
      Pays(b, "red", np.color = "red", 2)
    + Pays(b, "black", np.color = "black", 2)
    + Pays(b, "zero", np.is_zero, 36)
    + Pays(b, "even", np.is_even, 2)
    + Pays(b, "odd", np.is_odd, 2)
    + Pays(b, "first_dozen", np.dozen = 1, 3)
    + Pays(b, "second_dozen", np.dozen = 2, 3)
    + Pays(b, "third_dozen", np.dozen = 3, 3)
    + Pays(b, "first_column", np.column = 1, 3)
    + Pays(b, "second_column", np.column = 2, 3)
    + Pays(b, "third_column", np.column = 3, 3)
    + StreetWinnings(b, np)
    + CornerWinnings(b, np)
    - TotalBet(b)

\* ------------------------------------------------------------------ BaseStrategy

BaseInit(cls, ib, mb) ==
    [cls              |-> cls,
     initial_bankroll |-> ib,
     current_bankroll |-> ib,
     min_bet          |-> mb,
     is_bankrupt      |-> FALSE]

\* BaseStrategy.update_bankroll
BaseUpdateBankroll(s, w) ==
    LET b == s.current_bankroll + w
    IN  [s EXCEPT !.current_bankroll = b,
                  !.is_bankrupt = IF b < s.min_bet THEN TRUE ELSE @]

\* ------------------------------------------------------------------ Martingale

MartingaleInit(ib, mb) ==
    BaseInit("MartingaleStrategy", ib, mb) @@
    [base_bet |-> mb, current_bet |-> mb, consecutive_losses |-> 0]

\* The stake before the bankroll clamp.
MartingaleNominalBet(s) ==
    IF s.consecutive_losses > 0
    THEN s.base_bet * Pow2(s.consecutive_losses)
    ELSE s.base_bet

\* calculate_bet without the bankroll clamp.
MartingaleCalculateBetUnclamped(s) ==
    LET cb == MartingaleNominalBet(s)
    IN  [bet |-> ("red" :> cb), s |-> [s EXCEPT !.current_bet = cb]]

MartingaleCalculateBet(s) ==
    LET nominal == MartingaleNominalBet(s)
        cb == IF nominal > s.current_bankroll THEN s.current_bankroll ELSE nominal
    IN  [bet |-> ("red" :> cb), s |-> [s EXCEPT !.current_bet = cb]]

\* update_bankroll that leaves the loss counter alone after a loss.
MartingaleUpdateBankrollNoCount(s, w) ==
    LET t == BaseUpdateBankroll(s, w)
    IN  [t EXCEPT !.consecutive_losses = IF w < 0 THEN @ ELSE 0]

MartingaleUpdateBankroll(s, w) ==
    LET t == BaseUpdateBankroll(s, w)
    IN  [t EXCEPT !.consecutive_losses = IF w < 0 THEN @ + 1 ELSE 0]

\* ------------------------------------------------------------------ Labouchere

\* LabouchereStrategy.initialize_sequence: appends to the sequence it is given.
RECURSIVE initialize_sequence(_, _, _)
initialize_sequence(seq, remaining_profit, base_bet) ==
    IF remaining_profit > 0
    THEN LET bet == Min(base_bet, remaining_profit)
         IN  initialize_sequence(Append(seq, bet), remaining_profit - bet, base_bet)
    ELSE seq

LabouchereInit(ib, mb) ==
    BaseInit("LabouchereStrategy", ib, mb) @@
    [base_bet      |-> mb,
     target_profit |-> ib \div 10,
     sequence      |-> initialize_sequence(<<>>, ib \div 10, mb)]

\* sequence[0] + sequence[-1] if len(sequence) > 1 else sequence[0]
LabouchereEnds(seq) ==
    IF Len(seq) > 1 THEN seq[1] + seq[Len(seq)] ELSE seq[1]

LabouchereCalculateBet(s) ==
    LET seq == IF s.sequence = <<>>
               THEN initialize_sequence(s.sequence, s.target_profit, s.base_bet)
               ELSE s.sequence
        bet_amount == Min(LabouchereEnds(seq), s.current_bankroll)
    IN  [bet |-> ("red" :> bet_amount), s |-> [s EXCEPT !.sequence = seq]]

\* An update_bankroll that removes only the first entry on a win.
LabouchereUpdateBankrollPopsFirst(s, w) ==
    LET seq == s.sequence
        popped == Tail(seq)
        next == IF w > 0
                THEN IF popped = <<>>
                     THEN initialize_sequence(popped, s.target_profit, s.base_bet)
                     ELSE popped
                ELSE Append(seq, LabouchereEnds(seq))
    IN  [s EXCEPT !.current_bankroll = @ + w, !.sequence = next]

\* Overrides BaseStrategy.update_bankroll without calling it.
LabouchereUpdateBankroll(s, w) ==
    LET seq == s.sequence
        popped == IF Len(seq) > 1 THEN SubSeq(seq, 2, Len(seq) - 1) ELSE Tail(seq)
        next == IF w > 0
                THEN IF popped = <<>>
                     THEN initialize_sequence(popped, s.target_profit, s.base_bet)
                     ELSE popped
                ELSE Append(seq, LabouchereEnds(seq))
    IN  [s EXCEPT !.current_bankroll = @ + w, !.sequence = next]

\* ------------------------------------------------------------------ Grande Martingale

GrandeMartingaleInit(ib, mb) ==
    BaseInit("GrandeMartingaleStrategy", ib, mb) @@
    [base_bet               |-> mb,
     current_bet            |-> mb,
     consecutive_losses     |-> 0,
     max_consecutive_losses |-> 10,
     extra_units            |-> 2,
     aggressive_mode        |-> FALSE,
     profit_trigger         |-> ib \div 10,
     session_profit         |-> 0,
     color_switch_count     |-> 0,
     current_color          |-> "red"]

toggle_color(c) == IF c = "red" THEN "black" ELSE "red"

\* factor * base_bet + extra; extra * 1.5 is exact, extra being even.
GrandeMartingaleNominalBet(s) ==
    IF s.consecutive_losses > 0
    THEN LET factor == Pow2(s.consecutive_losses)
             extra == s.consecutive_losses * s.extra_units * s.base_bet
         IN  factor * s.base_bet
             + (IF s.aggressive_mode THEN (extra * 3) \div 2 ELSE extra)
    ELSE s.base_bet

GrandeMartingaleCalculateBet(s) ==
    LET clamped == Min(GrandeMartingaleNominalBet(s), s.current_bankroll)
        restart == s.consecutive_losses >= s.max_consecutive_losses
        bet     == IF restart THEN s.base_bet ELSE clamped
        losses1 == IF restart THEN 0 ELSE s.consecutive_losses
        color1  == IF restart THEN toggle_color(s.current_color) ELSE s.current_color
        count1  == s.color_switch_count + 1
        color2  == IF count1 >= 12 THEN toggle_color(color1) ELSE color1
        count2  == IF count1 >= 12 THEN 0 ELSE count1
    IN  [bet |-> (color2 :> bet),
         s   |-> [s EXCEPT !.current_bet = bet,
                           !.consecutive_losses = losses1,
                           !.current_color = color2,
                           !.color_switch_count = count2]]

\* Overrides BaseStrategy.update_bankroll without calling it.  switch is the
\* result of calculate_randomized_switch, drawn only after a win.
GrandeMartingaleUpdateBankroll(s, w, switch) ==
    LET profit == s.session_profit + w
        aggressive == IF profit >= s.profit_trigger /\ ~s.aggressive_mode THEN TRUE
                      ELSE IF profit <= 0 /\ s.aggressive_mode THEN FALSE
                      ELSE s.aggressive_mode
        t == [s EXCEPT !.current_bankroll = @ + w,
                       !.session_profit = profit,
                       !.aggressive_mode = aggressive]
    IN  IF w > 0
        THEN [t EXCEPT !.consecutive_losses = 0,
                       !.current_bet = s.base_bet,
                       !.current_color = IF switch THEN toggle_color(@) ELSE @]
        ELSE [t EXCEPT !.consecutive_losses = @ + 1]

\* ------------------------------------------------------------------ Thorp system

\* str(n) for the numbers 0..36
NumberKeys ==
  <<"0", "1", "2", "3", "4", "5", "6", "7", "8", "9", "10", "11", "12",
    "13", "14", "15", "16", "17", "18", "19", "20", "21", "22", "23", "24",
    "25", "26", "27", "28", "29", "30", "31", "32", "33", "34", "35", "36">>

str(n) == NumberKeys[n + 1]

\* The fields the session can reach.  record_number, the only writer of
\* phase, winning_history and the hit counters, is called from nowhere in
\* the repository, so a session never leaves the observation phase.
ThorpSystemInit(ib, mb) ==
    BaseInit("ThorpSystemStrategy", ib, mb) @@
    [base_bet                  |-> mb,
     winning_history           |-> <<>>,
     phase                     |-> "observation",
     observation_count         |-> 0,
     min_observations          |-> 30,
     strategy_change_threshold |-> 15,
     spins_since_last_win      |-> 0]

\* random_number is the result of random.randint(0, 36).  The betting phase
\* (the ELSE branch) needs 30 recorded numbers, which no session produces;
\* its bet is left empty here.
ThorpSystemCalculateBet(s, random_number) ==
    IF s.phase = "observation" \/ Len(s.winning_history) < s.min_observations
    THEN [bet |-> (str(random_number) :> s.min_bet), s |-> s]
    ELSE [bet |-> EmptyBet, s |-> s]

\* Overrides BaseStrategy.update_bankroll without calling it.
ThorpSystemUpdateBankroll(s, w) ==
    LET t == [s EXCEPT !.current_bankroll = @ + w]
    IN  IF s.winning_history # <<>>
        THEN LET since == IF w > 0 THEN 0 ELSE s.spins_since_last_win + 1
             IN  [t EXCEPT !.spins_since_last_win =
                        IF since >= s.strategy_change_threshold THEN 0 ELSE since]
        ELSE t

\* ------------------------------------------------------------------ 1-3-2-6

bet_multipliers == <<1, 3, 2, 6>>

OneThreeTwoSixInit(ib, mb) ==
    BaseInit("OneThreeTwoSixStrategy", ib, mb) @@
    [base_bet         |-> mb,
     consecutive_wins |-> 0,
     current_position |-> 0,
     session_profit   |-> 0,
     target_profit    |-> ib \div 10]

OneThreeTwoSixCalculateBet(s) ==
    LET position == IF s.consecutive_wins = 0 THEN 0 ELSE s.current_position
        nominal  == IF s.consecutive_wins = 0
                    THEN s.base_bet
                    ELSE s.base_bet * bet_multipliers[s.current_position + 1]
        bet_amount == Min(nominal, s.current_bankroll)
    IN  [bet |-> ("red" :> bet_amount), s |-> [s EXCEPT !.current_position = position]]

\* Overrides BaseStrategy.update_bankroll without calling it.
OneThreeTwoSixUpdateBankroll(s, w) ==
    LET profit == s.session_profit + w
        t == [s EXCEPT !.current_bankroll = @ + w, !.session_profit = profit]
    IN  IF w > 0
        THEN LET cw  == s.consecutive_wins + 1
                 pos == IF cw <= Len(bet_multipliers) THEN cw - 1 ELSE s.current_position
             IN  IF profit >= s.target_profit
                 THEN [t EXCEPT !.session_profit = 0,
                                !.consecutive_wins = 0,
                                !.current_position = 0]
                 ELSE [t EXCEPT !.consecutive_wins = cw, !.current_position = pos]
        ELSE [t EXCEPT !.consecutive_wins = 0, !.current_position = 0]

\* ------------------------------------------------------------------ Fibonacci

fibonacci_sequence == <<1, 1, 2, 3, 5, 8, 13, 21, 34, 55>>

\* __init__ sets no current_bet: the attribute appears with the first
\* calculate_bet.
FibonacciInit(ib, mb) ==
    BaseInit("FibonacciStrategy", ib, mb) @@
    [base_bet |-> mb, current_index |-> 0, consecutive_losses |-> 0]

\* The stake before the bankroll clamp; sequence_index counts from 0.
FibonacciNominalBet(s) ==
    IF s.consecutive_losses > 0
    THEN LET sequence_index == Min(s.consecutive_losses - 1, Len(fibonacci_sequence) - 1)
         IN  s.base_bet * fibonacci_sequence[sequence_index + 1]
    ELSE s.base_bet

FibonacciCalculateBet(s) ==
    LET nominal == FibonacciNominalBet(s)
        cb == IF nominal > s.current_bankroll THEN s.current_bankroll ELSE nominal
    IN  [bet |-> ("red" :> cb),
         s   |-> [f \in DOMAIN s \cup {"current_bet"} |->
                     IF f = "current_bet" THEN cb ELSE s[f]]]

FibonacciUpdateBankroll(s, w) ==
    LET t == BaseUpdateBankroll(s, w)
    IN  [t EXCEPT !.consecutive_losses = IF w < 0 THEN @ + 1 ELSE 0]

\* ------------------------------------------------------------------ D'Alembert

DAlembertInit(ib, mb) ==
    BaseInit("DAlembertStrategy", ib, mb) @@
    [base_bet               |-> mb,
     current_bet            |-> mb,
     consecutive_losses     |-> 0,
     max_consecutive_losses |-> 5,
     bet_increment          |-> mb]

\* calculate_bet without the restart at max_consecutive_losses.
DAlembertCalculateBetNoRestart(s) ==
    LET nominal == IF s.consecutive_losses > 0
                   THEN s.base_bet + s.bet_increment * s.consecutive_losses
                   ELSE s.base_bet
        cb == IF nominal > s.current_bankroll THEN s.current_bankroll ELSE nominal
    IN  [bet |-> ("red" :> cb), s |-> [s EXCEPT !.current_bet = cb]]

DAlembertCalculateBet(s) ==
    LET nominal == IF s.consecutive_losses > 0
                   THEN s.base_bet + s.bet_increment * s.consecutive_losses
                   ELSE s.base_bet
        clamped == IF nominal > s.current_bankroll THEN s.current_bankroll ELSE nominal
        restart == s.consecutive_losses >= s.max_consecutive_losses
        cb      == IF restart THEN s.base_bet ELSE clamped
    IN  [bet |-> ("red" :> cb),
         s   |-> [s EXCEPT !.current_bet = cb,
                           !.consecutive_losses = IF restart THEN 0 ELSE @]]

DAlembertUpdateBankroll(s, w) ==
    LET t == BaseUpdateBankroll(s, w)
    IN  IF w < 0
        THEN [t EXCEPT !.consecutive_losses = @ + 1]
        ELSE [t EXCEPT !.consecutive_losses = 0,
                       !.current_bet = Max(s.base_bet, s.current_bet - s.bet_increment)]

\* ------------------------------------------------------------------ Paroli

\* target_profit is initial_bankroll * 0.1; the bankrolls are multiples of 10.
ParoliInit(ib, mb) ==
    BaseInit("ParoliStrategy", ib, mb) @@
    [base_bet             |-> mb,
     current_bet          |-> mb,
     consecutive_wins     |-> 0,
     max_consecutive_wins |-> 3,
     target_profit        |-> ib \div 10]

ParoliCalculateBet(s) ==
    LET nominal == IF s.consecutive_wins > 0
                   THEN s.base_bet * Pow2(s.consecutive_wins)
                   ELSE s.base_bet
        clamped == IF nominal > s.current_bankroll THEN s.current_bankroll ELSE nominal
        restart == s.current_bankroll >= s.initial_bankroll + s.target_profit
        cb      == IF restart THEN s.base_bet ELSE clamped
    IN  [bet |-> ("red" :> cb),
         s   |-> [s EXCEPT !.current_bet = cb,
                           !.consecutive_wins = IF restart THEN 0 ELSE @]]

\* update_bankroll without the restart at max_consecutive_wins.
ParoliUpdateBankrollNoRestart(s, w) ==
    LET t == BaseUpdateBankroll(s, w)
    IN  IF w > 0
        THEN [t EXCEPT !.consecutive_wins = @ + 1]
        ELSE [t EXCEPT !.consecutive_wins = 0, !.current_bet = s.base_bet]

ParoliUpdateBankroll(s, w) ==
    LET t == BaseUpdateBankroll(s, w)
    IN  IF w > 0
        THEN IF s.consecutive_wins + 1 >= s.max_consecutive_wins
             THEN [t EXCEPT !.consecutive_wins = 0, !.current_bet = s.base_bet]
             ELSE [t EXCEPT !.consecutive_wins = @ + 1]
        ELSE [t EXCEPT !.consecutive_wins = 0, !.current_bet = s.base_bet]

\* ------------------------------------------------------------------ Oscar

\* target_profit is initial_bankroll * 0.05, kept as the fraction ib / 20.
OscarInit(ib, mb) ==
    BaseInit("OscarStrategy", ib, mb) @@
    [base_bet               |-> mb,
     current_bet            |-> mb,
     consecutive_losses     |-> 0,
     session_profit         |-> 0,
     max_consecutive_losses |-> 5,
     target_profit          |-> [num |-> ib, den |-> 20]]

\* base_bet * (1 + abs(session_profit) / base_bet) is base_bet +
\* abs(session_profit).
OscarCalculateBet(s) ==
    LET nominal == IF s.session_profit < 0
                   THEN s.base_bet + abs(s.session_profit)
                   ELSE s.base_bet
        clamped == IF nominal > s.current_bankroll THEN s.current_bankroll ELSE nominal
        restart == s.consecutive_losses >= s.max_consecutive_losses
        reached == s.session_profit * s.target_profit.den >= s.target_profit.num
        cb      == IF restart \/ reached THEN s.base_bet ELSE clamped
    IN  [bet |-> ("red" :> cb),
         s   |-> [s EXCEPT !.current_bet = cb,
                           !.consecutive_losses = IF restart THEN 0 ELSE @,
                           !.session_profit = IF reached THEN 0 ELSE @]]

OscarUpdateBankroll(s, w) ==
    LET t == BaseUpdateBankroll(s, w)
    IN  [t EXCEPT !.consecutive_losses = IF w < 0 THEN @ + 1 ELSE 0,
                  !.session_profit = @ + w]

\* ------------------------------------------------------------------ James Bond

\* The labels of the bet: str(i) for the high numbers and for the line
\* 13-18, and "0".
JamesBondHighLabels == {str(i) : i \in 19 .. 36}

JamesBondLineLabels == {str(i) : i \in 13 .. 18}

JamesBondInit(ib, mb) ==
    BaseInit("JamesBondStrategy", ib, mb) @@
    [unit_size              |-> Max(mb, 1),
     consecutive_losses     |-> 0,
     total_spins            |-> 0,
     profit_this_session    |-> 0,
     max_consecutive_losses |-> 0,
     progression_level      |-> 1,
     max_progression        |-> 4,
     target_profit          |-> 20 * Max(mb, 1),
     stop_loss              |-> -40 * Max(mb, 1)]

\* The quotients bankroll / 20, high_bet / 18 and line_bet / 6 are exact for
\* the inputs the model draws: a unit that is a multiple of 18 and bankrolls
\* that are multiples of 360.
JamesBondCalculateBet(s) ==
    LET nominal_unit == s.unit_size * s.progression_level
        current_unit == IF nominal_unit * 20 > s.current_bankroll
                        THEN s.current_bankroll \div 20
                        ELSE nominal_unit
        high_bet == current_unit * 14
        line_bet == current_unit * 5
    IN  [bet |-> [l \in JamesBondHighLabels \cup JamesBondLineLabels \cup {"0"} |->
                     IF l \in JamesBondHighLabels THEN high_bet \div 18
                     ELSE IF l \in JamesBondLineLabels THEN line_bet \div 6
                     ELSE current_unit],
         s   |-> s]

\* Overrides BaseStrategy.update_bankroll without calling it.
JamesBondUpdateBankroll(s, w) ==
    LET profit == s.profit_this_session + w
        t == [s EXCEPT !.current_bankroll = @ + w,
                       !.total_spins = @ + 1,
                       !.profit_this_session = profit]
    IN  IF w >= 0
        THEN IF profit >= s.target_profit
             THEN [t EXCEPT !.consecutive_losses = 0,
                            !.progression_level = 1,
                            !.profit_this_session = 0]
             ELSE [t EXCEPT !.consecutive_losses = 0,
                            !.progression_level = IF @ > 1 THEN @ - 1 ELSE @]
        ELSE LET cl    == s.consecutive_losses + 1
                 level == IF cl >= 2
                          THEN Min(s.progression_level + 1, s.max_progression)
                          ELSE s.progression_level
             IN  IF profit <= s.stop_loss
                 THEN [t EXCEPT !.consecutive_losses = cl,
                                !.max_consecutive_losses = Max(@, cl),
                                !.progression_level = 1,
                                !.profit_this_session = 0]
                 ELSE [t EXCEPT !.consecutive_losses = cl,
                                !.max_consecutive_losses = Max(@, cl),
                                !.progression_level = level]

\* ------------------------------------------------------------------ reset

\* BaseStrategy.reset (the two history lists are not in the model).
BaseReset(s) ==
    [s EXCEPT !.current_bankroll = s.initial_bankroll, !.is_bankrupt = FALSE]

\* A reset that stops after BaseStrategy.reset and leaves the loss counter.
MartingaleResetKeepsLosses(s) ==
    [BaseReset(s) EXCEPT !.current_bet = s.base_bet]

MartingaleReset(s) ==
    [BaseReset(s) EXCEPT !.current_bet = s.base_bet, !.consecutive_losses = 0]

\* current_bet is not reset: it keeps the stake of the latest calculate_bet.
FibonacciReset(s) ==
    [BaseReset(s) EXCEPT !.current_index = 0, !.consecutive_losses = 0]

DAlembertReset(s) ==
    [BaseReset(s) EXCEPT !.consecutive_losses = 0, !.current_bet = s.base_bet]

ParoliReset(s) ==
    [BaseReset(s) EXCEPT !.consecutive_wins = 0, !.current_bet = s.base_bet]

OscarReset(s) ==
    [BaseReset(s) EXCEPT !.consecutive_losses = 0,
                         !.session_profit = 0,
                         !.current_bet = s.base_bet]

LabouchereReset(s) ==
    [BaseReset(s) EXCEPT !.sequence = initialize_sequence(<<>>, s.target_profit, s.base_bet)]

OneThreeTwoSixReset(s) ==
    [BaseReset(s) EXCEPT !.consecutive_wins = 0,
                         !.current_position = 0,
                         !.session_profit = 0]

JamesBondReset(s) ==
    [BaseReset(s) EXCEPT !.consecutive_losses = 0,
                         !.total_spins = 0,
                         !.profit_this_session = 0,
                         !.max_consecutive_losses = 0,
                         !.progression_level = 1]

\* ------------------------------------------------------------------ dispatch

\* The strategy classes the model drives.
Classes == {"MartingaleStrategy", "LabouchereStrategy", "GrandeMartingaleStrategy",
            "ThorpSystemStrategy", "OneThreeTwoSixStrategy"}

\* strategy.__class__(initial_bankroll, min_bet)
NewStrategy(cls, ib, mb) ==
    CASE cls = "MartingaleStrategy" -> MartingaleInit(ib, mb)
      [] cls = "LabouchereStrategy" -> LabouchereInit(ib, mb)
      [] cls = "GrandeMartingaleStrategy" -> GrandeMartingaleInit(ib, mb)
      [] cls = "ThorpSystemStrategy" -> ThorpSystemInit(ib, mb)
      [] cls = "OneThreeTwoSixStrategy" -> OneThreeTwoSixInit(ib, mb)
      [] cls = "FibonacciStrategy" -> FibonacciInit(ib, mb)
      [] cls = "DAlembertStrategy" -> DAlembertInit(ib, mb)
      [] cls = "ParoliStrategy" -> ParoliInit(ib, mb)
      [] cls = "OscarStrategy" -> OscarInit(ib, mb)
      [] cls = "JamesBondStrategy" -> JamesBondInit(ib, mb)

\* random.randint(0, 36) in Thorp's observation bet: the model draws the
\* number from this sample of 0..36.
ThorpRandomNumbers == {0, 17, 36}

\* The random draws one tick makes inside the strategy: the number Thorp's
\* observation bet names, whether Grande Martingale switches colour on a win.
RandomChoices(s) ==
    CASE s.cls = "ThorpSystemStrategy" -> ThorpRandomNumbers
      [] s.cls = "GrandeMartingaleStrategy" -> {0, 1}
      [] OTHER -> {0}

\* strategy.calculate_bet(): the bet and the strategy as the call leaves it
CalculateBet(s, r) ==
    CASE s.cls = "MartingaleStrategy" -> MartingaleCalculateBet(s)
      [] s.cls = "LabouchereStrategy" -> LabouchereCalculateBet(s)
      [] s.cls = "GrandeMartingaleStrategy" -> GrandeMartingaleCalculateBet(s)
      [] s.cls = "ThorpSystemStrategy" -> ThorpSystemCalculateBet(s, r)
      [] s.cls = "OneThreeTwoSixStrategy" -> OneThreeTwoSixCalculateBet(s)
      [] s.cls = "FibonacciStrategy" -> FibonacciCalculateBet(s)
      [] s.cls = "DAlembertStrategy" -> DAlembertCalculateBet(s)
      [] s.cls = "ParoliStrategy" -> ParoliCalculateBet(s)
      [] s.cls = "OscarStrategy" -> OscarCalculateBet(s)
      [] s.cls = "JamesBondStrategy" -> JamesBondCalculateBet(s)

\* strategy.update_bankroll(winnings)
UpdateBankroll(s, w, r) ==
    CASE s.cls = "MartingaleStrategy" -> MartingaleUpdateBankroll(s, w)
      [] s.cls = "LabouchereStrategy" -> LabouchereUpdateBankroll(s, w)
      [] s.cls = "GrandeMartingaleStrategy" -> GrandeMartingaleUpdateBankroll(s, w, r = 1)
      [] s.cls = "ThorpSystemStrategy" -> ThorpSystemUpdateBankroll(s, w)
      [] s.cls = "OneThreeTwoSixStrategy" -> OneThreeTwoSixUpdateBankroll(s, w)
      [] s.cls = "FibonacciStrategy" -> FibonacciUpdateBankroll(s, w)
      [] s.cls = "DAlembertStrategy" -> DAlembertUpdateBankroll(s, w)
      [] s.cls = "ParoliStrategy" -> ParoliUpdateBankroll(s, w)
      [] s.cls = "OscarStrategy" -> OscarUpdateBankroll(s, w)
      [] s.cls = "JamesBondStrategy" -> JamesBondUpdateBankroll(s, w)

\* strategy.reset(), for the classes that define one the model drives
Reset(s) ==
    CASE s.cls = "MartingaleStrategy" -> MartingaleReset(s)
      [] s.cls = "FibonacciStrategy" -> FibonacciReset(s)
      [] s.cls = "DAlembertStrategy" -> DAlembertReset(s)
      [] s.cls = "ParoliStrategy" -> ParoliReset(s)
      [] s.cls = "OscarStrategy" -> OscarReset(s)
      [] s.cls = "LabouchereStrategy" -> LabouchereReset(s)
      [] s.cls = "OneThreeTwoSixStrategy" -> OneThreeTwoSixReset(s)
      [] s.cls = "JamesBondStrategy" -> JamesBondReset(s)

\* ------------------------------------------------------------------ GameSession

\* GameSession.__init__ on a freshly constructed strategy.
SessionInit(cls, ib, mb, ms) ==
    /\ strategy = NewStrategy(cls, ib, mb)
    /\ is_active = TRUE
    /\ total_spins = 0
    /\ wins = 0
    /\ losses = 0
    /\ bets = EmptyBet
    /\ bankroll_at_bet = ib
    /\ number = -1
    /\ winnings = 0
    /\ max_spins = ms

\* No strategy object.
NoStrategy == [cls |-> "none"]

\* No second strategy object: nothing constructed, no bet returned, no call
\* made.
NoTwin == [strategy |-> NoStrategy, bets |-> EmptyBet, calls |-> 0]

\* No method that runs a whole session in one call has been called.
NoFrame == [fn |-> "none"]

\* No History object has been constructed.
NoHistory == [history |-> <<>>, file |-> <<>>, clock |-> 0, returned |-> <<>>]

\* The lists of spin records and of bankrolls are left out of the state,
\* there is no second strategy object, no call of a whole-session method and
\* no History object.
NoRecords ==
    /\ spins = <<>>
    /\ bankroll_history = <<>>
    /\ keep_spins = FALSE
    /\ twin = NoTwin
    /\ frame = NoFrame
    /\ history = NoHistory

\* A session played on its own: no Simulator, nothing raised.
NoSimulator ==
    /\ strategies = <<>>
    /\ num_simulations = 0
    /\ results = <<>>
    /\ analysis = <<>>
    /\ raised = "none"
    /\ pc = "play_until_bankruptcy"

\* The loop condition of play_until_bankruptcy.
Running == is_active /\ ~strategy.is_bankrupt

\* The record appended to GameSession.spins, without its 'number' and
\* 'properties' entries: the winnings are the gross payout, the stake not
\* taken off.
SpinRecordGross(b, w, s) ==
    [bets |-> b, winnings |-> w + TotalBet(b), bankroll |-> s.current_bankroll]

\* The record appended to GameSession.spins, without its 'number' and
\* 'properties' entries (no code of the session or of a strategy reads them).
SpinRecord(b, w, s) ==
    [bets |-> b, winnings |-> w, bankroll |-> s.current_bankroll]

\* An iteration that counts a tick with zero winnings as a win.
TickCountsPushAsWin ==
    /\ pc = "play_until_bankruptcy"
    /\ Running
    /\ total_spins < MaxTicks
    /\ \E r \in RandomChoices(strategy), n \in spin :
         LET cb == CalculateBet(strategy, r)
             np == get_number_properties(n)
             w  == calculate_winnings(cb.bet, np)
             s2 == UpdateBankroll(cb.s, w, r)
         IN  /\ bets' = cb.bet
             /\ bankroll_at_bet' = cb.s.current_bankroll
             /\ winnings' = w
             /\ strategy' = s2
             /\ wins' = IF w >= 0 THEN wins + 1 ELSE wins
             /\ losses' = IF w >= 0 THEN losses ELSE losses + 1
             /\ total_spins' = total_spins + 1
             /\ is_active' = IF s2.is_bankrupt THEN FALSE ELSE is_active
             /\ spins' = IF keep_spins THEN Append(spins, SpinRecord(cb.bet, w, s2))
                         ELSE spins
             /\ bankroll_history' = IF keep_spins
                                    THEN Append(bankroll_history, s2.current_bankroll)
                                    ELSE bankroll_history
    /\ UNCHANGED <<number, max_spins, keep_spins, twin, frame, history>>
    /\ UNCHANGED simVars

\* One iteration of the loop of play_until_bankruptcy.  The lists of spin
\* records and of bankrolls grow in the specifications that keep them
\* (keep_spins).
Tick ==
    /\ pc = "play_until_bankruptcy"
    /\ Running
    /\ total_spins < MaxTicks
    /\ \E r \in RandomChoices(strategy), n \in spin :
         LET cb == CalculateBet(strategy, r)
             np == get_number_properties(n)
             w  == calculate_winnings(cb.bet, np)
             s2 == UpdateBankroll(cb.s, w, r)
         IN  /\ bets' = cb.bet
             /\ bankroll_at_bet' = cb.s.current_bankroll
             /\ winnings' = w
             /\ strategy' = s2
             /\ wins' = IF w > 0 THEN wins + 1 ELSE wins
             /\ losses' = IF w > 0 THEN losses ELSE losses + 1
             /\ total_spins' = total_spins + 1
             /\ is_active' = IF s2.is_bankrupt THEN FALSE ELSE is_active
             /\ spins' = IF keep_spins THEN Append(spins, SpinRecord(cb.bet, w, s2))
                         ELSE spins
             /\ bankroll_history' = IF keep_spins
                                    THEN Append(bankroll_history, s2.current_bankroll)
                                    ELSE bankroll_history
    /\ UNCHANGED <<number, max_spins, keep_spins, twin, frame, history>>
    /\ UNCHANGED simVars

\* A quotient a / b of the code (true division), kept exact as a fraction
\* with a positive denominator.
Frac(a, b) == [num |-> a, den |-> b]

\* GameSession.get_results.  The model keeps neither the list of spin records
\* nor the list of bankrolls: each is stood for by its length (one record per
\* tick; the opening bankroll and one bankroll per tick).
get_results ==
    [num_spins        |-> total_spins,
     wins             |-> wins,
     losses           |-> losses,
     win_rate         |-> IF total_spins > 0 THEN Frac(wins, total_spins) ELSE Frac(0, 1),
     final_bankroll   |-> strategy.current_bankroll,
     spins            |-> total_spins,
     bankroll_history |-> total_spins + 1]

\* Simulator.profit_target_percentage, its default (main.py passes the same).
profit_target_percentage == 50

InitialBankrolls == {10, 20}

MinBets == {1}

Init ==
    /\ \E cls \in Classes, ib \in InitialBankrolls, mb \in MinBets :
           SessionInit(cls, ib, mb, MaxSpinsInput)
    /\ NoSimulator
    /\ NoRecords

Next == Tick

Spec == Init /\ [][Next]_vars

\* Martingale sessions on their own, over more inputs; 100 and 1 are the
\* inputs of the specification's worked example.
MartingaleBankrolls == {10, 20, 100}

MartingaleMinBets == {1, 2, 3}

InitMartingale ==
    /\ \E ib \in MartingaleBankrolls, mb \in MartingaleMinBets :
           SessionInit("MartingaleStrategy", ib, mb, MaxSpinsInput)
    /\ NoSimulator
    /\ NoRecords

SpecMartingale == InitMartingale /\ [][Next]_vars

\* ------------------------------------------------------------------ claims C1..C6

\* C1: a session stops after at most max_spins ticks: the spin count never
\* exceeds the budget, and a session that has used the budget is no longer
\* running.
C1_StopsWithinMaxSpins ==
    /\ total_spins <= max_spins
    /\ (total_spins = max_spins => ~Running)

\* C2: at every tick the stakes of the bet sum to at most the bankroll the
\* strategy held when the bet was made.
C2_StakeWithinBankroll ==
    total_spins > 0 => TotalBet(bets) <= bankroll_at_bet

\* C3: no bet holds a stake below 0.
C3_NoNegativeStake ==
    \A k \in DOMAIN bets : bets[k] >= 0

\* C4: the bankroll is at least 0 after every update_bankroll.
C4_BankrollNonNegative ==
    strategy.current_bankroll >= 0

\* C5: whenever update_bankroll leaves the bankroll below min_bet, the
\* strategy is flagged bankrupt.
C5_BankruptFlagSet ==
    (total_spins > 0 /\ strategy.current_bankroll < strategy.min_bet)
        => strategy.is_bankrupt

\* C6: no bet is requested from a strategy whose bankroll is below min_bet.
C6_NoBetBelowMinBet ==
    total_spins > 0 => bankroll_at_bet >= strategy.min_bet

\* ------------------------------------------------------------------ claims C7..C9

\* C7: MartingaleStrategy: the bet after a losing spin is strictly greater
\* than the bet before it unless the bankroll clamp caps it (the stake is
\* then the whole bankroll), and the bet after a winning spin is base_bet.
C7_MartingaleProgression ==
    [][(/\ strategy.cls = "MartingaleStrategy"
        /\ total_spins >= 1
        /\ total_spins' = total_spins + 1)
       => /\ winnings < 0 => \/ bets'["red"] > bets["red"]
                             \/ bets'["red"] = strategy.current_bankroll
          /\ winnings > 0 => bets'["red"] = strategy.base_bet]_vars

\* A Martingale bet that doubled the base bet after a loss, not clamped.
C7_Witness ==
    /\ strategy.cls = "MartingaleStrategy"
    /\ total_spins >= 2
    /\ bets = ("red" :> 2 * strategy.base_bet)
    /\ bets["red"] < bankroll_at_bet

\* The stakes of the worked example: six doublings, then the remaining bankroll.
ScenarioStakes == <<1, 2, 4, 8, 16, 32, 37>>

\* C8: with initial_bankroll = 100 and min_bet = 1, as long as every spin so
\* far was lost, the k-th Martingale bet stakes 1, 2, 4, 8, 16, 32 for
\* k = 1..6 and the seventh stakes the remaining bankroll, 37.
C8_ScenarioStakes ==
    (/\ strategy.cls = "MartingaleStrategy"
     /\ strategy.initial_bankroll = 100
     /\ strategy.min_bet = 1
     /\ total_spins \in 1 .. Len(ScenarioStakes)
     /\ losses = total_spins)
        => bets = ("red" :> ScenarioStakes[total_spins])

\* Seven losing spins in a row: the seventh bet staked the 37 that were left.
C8_Witness ==
    /\ strategy.cls = "MartingaleStrategy"
    /\ strategy.initial_bankroll = 100
    /\ total_spins = 7
    /\ losses = 7
    /\ bets = ("red" :> 37)
    /\ bankroll_at_bet = 37

\* The number of doublings a fixed cap on the Martingale stake would allow
\* at most; a cap of fewer doublings is a smaller cap.
MaxCapDoublings == 5

\* C9: the stake MartingaleStrategy computes before the bankroll clamp stays
\* under a fixed cap, whatever the number of consecutive losses: the stake
\* it is about to compute is at most base_bet * 2^MaxCapDoublings.
C9_MartingaleStakeCapped ==
    (strategy.cls = "MartingaleStrategy" /\ Running)
        => MartingaleNominalBet(strategy) <= strategy.base_bet * Pow2(MaxCapDoublings)

\* ------------------------------------------------------------------ the resolver on its own

\* The labels _calculate_winnings tests for.
OutsideLabels == {"red", "black", "zero", "even", "odd",
                  "first_dozen", "second_dozen", "third_dozen",
                  "first_column", "second_column", "third_column"}

StreetLabels == {StreetKeys[i] : i \in 1 .. Len(StreetKeys)}

CornerLabels == {CornerKeys[i] : i \in 1 .. Len(CornerKeys)}

\* Straight-number labels, as DragonTiger, Thorp and James Bond place them.
StraightLabels == {str(0), str(17)}

ResolverLabels == OutsideLabels \cup StreetLabels \cup CornerLabels \cup StraightLabels

\* James Bond inputs: a unit of 18 and bankrolls that are multiples of 360
\* keep every stake whole.
JamesBondBankrolls == {360, 720}

JamesBondMinBets == {18}

\* The bets JamesBondStrategy.calculate_bet returns, at each progression
\* level.
JamesBondBets ==
    {JamesBondCalculateBet([JamesBondInit(ib, mb) EXCEPT !.progression_level = l]).bet :
        ib \in JamesBondBankrolls, mb \in JamesBondMinBets, l \in 1 .. 4}

\* The bets handed to the resolver: one or two labels, stakes 1..MaxStake,
\* and the bets of James Bond.
ResolverBets ==
    {(l :> a) : l \in ResolverLabels, a \in 1 .. MaxStake}
    \cup {(p[1] :> a) @@ (p[2] :> b) :
            p \in {q \in ResolverLabels \X ResolverLabels : q[1] # q[2]},
            a \in 1 .. MaxStake, b \in 1 .. MaxStake}
    \cup JamesBondBets

\* No session: only bets, number and winnings are in use.
InitResolve ==
    /\ strategy = NoStrategy
    /\ is_active = FALSE
    /\ total_spins = 0
    /\ wins = 0
    /\ losses = 0
    /\ bets \in ResolverBets
    /\ bankroll_at_bet = 0
    /\ number = -1
    /\ winnings = 0
    /\ max_spins = MaxSpinsInput
    /\ strategies = <<>>
    /\ num_simulations = 0
    /\ results = <<>>
    /\ analysis = <<>>
    /\ raised = "none"
    /\ pc = "_calculate_winnings"
    /\ NoRecords

\* winning_number = self.roulette.spin() and
\* self._calculate_winnings(bets, self.roulette.get_number_properties(n)):
\* the call returns a number for every bet, it has no raise statement.
Resolve ==
    /\ number = -1
    /\ \E n \in spin :
         /\ number' = n
         /\ winnings' = calculate_winnings(bets, get_number_properties(n))
    /\ UNCHANGED <<strategy, is_active, total_spins, wins, losses, bets,
                   bankroll_at_bet, max_spins>>
    /\ UNCHANGED simVars
    /\ UNCHANGED <<spins, bankroll_history, keep_spins, twin, frame, history>>

NextResolve == Resolve

SpecResolve == InitResolve /\ [][NextResolve]_vars

\* ------------------------------------------------------------------ claim C10

\* The paytable of the claim: each label with the numbers it covers and its
\* odds (zero 35:1, street 11:1, corner 8:1, dozen and column 2:1, colour
\* and parity 1:1).
C10_Paytable ==
    {[label |-> "red", odds |-> 1,
      covers |-> {1, 3, 5, 7, 9, 12, 14, 16, 18, 19, 21, 23, 25, 27, 30, 32, 34, 36}],
     [label |-> "black", odds |-> 1,
      covers |-> {2, 4, 6, 8, 10, 11, 13, 15, 17, 20, 22, 24, 26, 28, 29, 31, 33, 35}],
     [label |-> "zero", odds |-> 35, covers |-> {0}],
     [label |-> "even", odds |-> 1, covers |-> {2 * k : k \in 1 .. 18}],
     [label |-> "odd", odds |-> 1, covers |-> {2 * k - 1 : k \in 1 .. 18}],
     [label |-> "first_dozen", odds |-> 2, covers |-> 1 .. 12],
     [label |-> "second_dozen", odds |-> 2, covers |-> 13 .. 24],
     [label |-> "third_dozen", odds |-> 2, covers |-> 25 .. 36],
     [label |-> "first_column", odds |-> 2, covers |-> {3 * k - 2 : k \in 1 .. 12}],
     [label |-> "second_column", odds |-> 2, covers |-> {3 * k - 1 : k \in 1 .. 12}],
     [label |-> "third_column", odds |-> 2, covers |-> {3 * k : k \in 1 .. 12}]}
    \cup {[label |-> "street_" \o ToString(k), odds |-> 11,
           covers |-> (3 * k - 2) .. (3 * k)] : k \in 1 .. 12}
    \cup {[label |-> "corner_(" \o ToString(a) \o ", " \o ToString(a + 1) \o ", "
                        \o ToString(a + 3) \o ", " \o ToString(a + 4) \o ")",
           odds |-> 8,
           covers |-> {a, a + 1, a + 3, a + 4}] : a \in {x \in 1 .. 32 : x % 3 # 0}}

\* What the stake on label l returns on outcome n: the stake plus the odds
\* when the label covers n, nothing otherwise.
C10_Return(b, l, n) ==
    IF \E e \in C10_Paytable : e.label = l /\ n \in e.covers
    THEN LET e == CHOOSE x \in C10_Paytable : x.label = l
         IN  b[l] * (e.odds + 1)
    ELSE 0

RECURSIVE C10_Payout(_, _, _)
C10_Payout(b, ls, n) ==
    IF ls = {} THEN 0
    ELSE LET l == CHOOSE x \in ls : TRUE
         IN  C10_Return(b, l, n) + C10_Payout(b, ls \ {l}, n)

MaxStrategies == 2

MaxSimulations == 2

\* A strategy that has played one losing tick (outcome 0).
PlayedOnce(s) ==
    LET cb == CalculateBet(s, 0)
    IN  UpdateBankroll(cb.s, calculate_winnings(cb.bet, get_number_properties(0)), 0)

\* The strategy objects a caller hands to Simulator(strategies, ...): newly
\* constructed ones, as main.py does, and ones that have already played.
Prototypes ==
    LET new == {NewStrategy(cls, ib, mb) :
                    cls \in Classes, ib \in InitialBankrolls, mb \in MinBets}
    IN  new \cup {PlayedOnce(s) : s \in new}

\* The lists of at most n elements of S.
SeqsUpTo(S, n) == UNION {[1 .. k -> S] : k \in 0 .. n}

\* The session handed over is the prototype itself, not a new object.
SameInstance(proto) == proto

\* strategy.__class__(strategy.initial_bankroll, strategy.min_bet)
FreshInstance(proto) == NewStrategy(proto.cls, proto.initial_bankroll, proto.min_bet)

\* The results dictionary when no session is run: results[strategy_name] = []
\* for each prototype in turn; a class name met again keeps its position.
RECURSIVE EmptyResults(_)
EmptyResults(protos) ==
    IF protos = <<>> THEN <<>>
    ELSE LET rest == EmptyResults(SubSeq(protos, 1, Len(protos) - 1))
             strategy_name == protos[Len(protos)].cls
         IN  IF \E i \in 1 .. Len(rest) : rest[i].name = strategy_name
             THEN rest
             ELSE Append(rest, [name |-> strategy_name, sessions |-> <<>>])

\* Simulator.run_simulations.  With a prototype and num_simulations >= 1 the
\* first pass of the inner loop constructs the strategy instance and then
\* calls GameSession(strategy_instance, max_spins=..., profit_target_percentage=...),
\* whose __init__ takes a strategy only: the call raises TypeError before any
\* session exists, and run_simulations returns nothing.
RunSimulations ==
    /\ pc = "run_simulations"
    /\ IF strategies # <<>> /\ num_simulations > 0
       THEN /\ strategy' = FreshInstance(strategies[1])
            /\ raised' = "TypeError"
            /\ pc' = "done"
            /\ UNCHANGED results
       ELSE /\ results' = EmptyResults(strategies)
            /\ raised' = "none"
            /\ pc' = "analyze_results"
            /\ UNCHANGED strategy
    /\ UNCHANGED <<is_active, total_spins, wins, losses, bets, bankroll_at_bet,
                   number, winnings, max_spins, strategies, num_simulations,
                   analysis>>
    /\ UNCHANGED <<spins, bankroll_history, keep_spins, twin, frame, history>>

FracAdd(a, b) == Frac(a.num * b.den + b.num * a.den, a.den * b.den)

\* sum(...) of a list of numbers
RECURSIVE SumSeq(_)
SumSeq(q) == IF q = <<>> THEN 0 ELSE Head(q) + SumSeq(Tail(q))

\* sum(...) of a list of quotients
RECURSIVE SumFracs(_)
SumFracs(q) == IF q = <<>> THEN Frac(0, 1) ELSE FracAdd(Head(q), SumFracs(Tail(q)))

\* Every session that ended above its initial bankroll counts, whatever its
\* termination reason.
SuccessfulSessionsAnyReason(sessions) ==
    Cardinality({i \in 1 .. Len(sessions) :
                    sessions[i].final_bankroll > sessions[i].initial_bankroll})

\* A count that adds to profit_target_count every session that ended above
\* its initial bankroll, whatever its termination reason.
SuccessfulSessionsCountedTwice(sessions) ==
    Cardinality({i \in 1 .. Len(sessions) :
                    sessions[i].termination_reason = "profit_target_reached"})
    + Cardinality({i \in 1 .. Len(sessions) :
                    sessions[i].final_bankroll > sessions[i].initial_bankroll})

\* successful_sessions: profit_target_count plus the sessions that reached
\* max spins with a final bankroll above the initial one.
SuccessfulSessions(sessions) ==
    Cardinality({i \in 1 .. Len(sessions) :
                    sessions[i].termination_reason = "profit_target_reached"})
    + Cardinality({i \in 1 .. Len(sessions) :
                    /\ sessions[i].termination_reason = "max_spins_reached"
                    /\ sessions[i].final_bankroll > sessions[i].initial_bankroll})

\* The body of the loop of analyze_results for the sessions of one strategy:
\* the statistics, or the exception the first failing statement raises.
AnalyzeSessions(sessions) ==
    LET num_sessions == Len(sessions)
        I == 1 .. num_sessions
        count(reason) == Cardinality({i \in I : sessions[i].termination_reason = reason})
        max_spins_reached == {i \in I : sessions[i].termination_reason = "max_spins_reached"}
        successful_sessions == SuccessfulSessions(sessions)
        win_rates == [i \in I |-> Frac(sessions[i].wins, sessions[i].num_spins)]
        sum_win_rates == SumFracs(win_rates)
        profits == [i \in I |-> sessions[i].final_bankroll - sessions[i].initial_bankroll]
        Raise(e) == [raised |-> e, stats |-> <<>>]
    IN  IF \E i \in I : "termination_reason" \notin DOMAIN sessions[i]
        THEN Raise("KeyError")
        ELSE IF \E i \in max_spins_reached : "initial_bankroll" \notin DOMAIN sessions[i]
        THEN Raise("KeyError")
        ELSE IF num_sessions = 0
        THEN Raise("ZeroDivisionError")
        ELSE IF \E i \in I : sessions[i].num_spins = 0
        THEN Raise("ZeroDivisionError")
        ELSE IF \E i \in I : "initial_bankroll" \notin DOMAIN sessions[i]
        THEN Raise("KeyError")
        ELSE [raised |-> "none",
              stats  |->
                [success_rate        |-> Frac(successful_sessions, num_sessions),
                 win_rate            |-> Frac(sum_win_rates.num,
                                              sum_win_rates.den * num_sessions),
                 avg_profit_loss     |-> Frac(SumSeq(profits), num_sessions),
                 max_profit          |-> CHOOSE x \in {profits[i] : i \in I} :
                                            \A i \in I : x >= profits[i],
                 max_loss            |-> CHOOSE x \in {profits[i] : i \in I} :
                                            \A i \in I : x <= profits[i],
                 avg_spins           |-> Frac(SumSeq([i \in I |-> sessions[i].num_spins]),
                                              num_sessions),
                 bankruptcy_count    |-> count("bankruptcy"),
                 max_spins_count     |-> count("max_spins_reached"),
                 profit_target_count |-> count("profit_target_reached")]]

\* The loop of analyze_results over results.items(): the analysis of each
\* strategy in turn; an exception ends the call.
RECURSIVE AnalyzeAll(_)
AnalyzeAll(res) ==
    IF res = <<>> THEN [raised |-> "none", analysis |-> <<>>]
    ELSE LET a == AnalyzeSessions(Head(res).sessions)
         IN  IF a.raised # "none" THEN [raised |-> a.raised, analysis |-> <<>>]
             ELSE LET rest == AnalyzeAll(Tail(res))
                  IN  IF rest.raised # "none" THEN rest
                      ELSE [raised   |-> "none",
                            analysis |-> <<[name |-> Head(res).name, stats |-> a.stats]>>
                                         \o rest.analysis]

\* Simulator.analyze_results(results)
AnalyzeResults ==
    /\ pc = "analyze_results"
    /\ LET a == AnalyzeAll(results)
       IN  /\ raised' = a.raised
           /\ analysis' = a.analysis
    /\ pc' = "done"
    /\ UNCHANGED <<strategy, is_active, total_spins, wins, losses, bets,
                   bankroll_at_bet, number, winnings, max_spins, strategies,
                   num_simulations, results>>
    /\ UNCHANGED <<spins, bankroll_history, keep_spins, twin, frame, history>>

\* main(): Simulator(strategies, max_spins, profit_target_percentage), then
\* run_simulations(num_simulations), then analyze_results(results).
InitSimulator ==
    /\ strategies \in SeqsUpTo(Prototypes, MaxStrategies)
    /\ num_simulations \in -1 .. MaxSimulations
    /\ max_spins \in {0, MaxSpinsInput}
    /\ results = <<>>
    /\ analysis = <<>>
    /\ raised = "none"
    /\ pc = "run_simulations"
    /\ strategy = NoStrategy
    /\ is_active = FALSE
    /\ total_spins = 0
    /\ wins = 0
    /\ losses = 0
    /\ bets = EmptyBet
    /\ bankroll_at_bet = 0
    /\ number = -1
    /\ winnings = 0
    /\ NoRecords

NextSimulator == RunSimulations \/ AnalyzeResults

SpecSimulator == InitSimulator /\ [][NextSimulator]_vars

\* ------------------------------------------------------------------ analyze_results on its own

\* The longest list of session results handed to analyze_results.
MaxSessions == 3

\* <<wins, num_spins>> of the session results handed to analyze_results.
SessionCounts == {<<0, 0>>, <<1, 1>>, <<1, 3>>}

\* Their final bankrolls, below and above the initial bankroll of 10.
FinalBankrolls == {0, 20}

\* The values of termination_reason analyze_results counts.
TerminationReasons == {"bankruptcy", "max_spins_reached", "profit_target_reached"}

\* A session result with the keys analyze_results reads.
SessionResult(c, fb, reason) ==
    [num_spins          |-> c[2],
     wins               |-> c[1],
     losses             |-> c[2] - c[1],
     final_bankroll     |-> fb,
     initial_bankroll   |-> 10,
     termination_reason |-> reason]

\* A session result as get_results returns it: without initial_bankroll and
\* termination_reason.
GetResultsShaped(c, fb) ==
    [num_spins        |-> c[2],
     wins             |-> c[1],
     losses           |-> c[2] - c[1],
     win_rate         |-> IF c[2] > 0 THEN Frac(c[1], c[2]) ELSE Frac(0, 1),
     final_bankroll   |-> fb,
     spins            |-> c[2],
     bankroll_history |-> c[2] + 1]

SessionResults ==
    {SessionResult(c, fb, reason) :
        c \in SessionCounts, fb \in FinalBankrolls, reason \in TerminationReasons}
    \cup {GetResultsShaped(<<1, 1>>, fb) : fb \in FinalBankrolls}

\* analyze_results({'MartingaleStrategy': sessions})
InitAnalyze ==
    /\ \E sessions \in SeqsUpTo(SessionResults, MaxSessions) :
          results = <<[name |-> "MartingaleStrategy", sessions |-> sessions]>>
    /\ strategies = <<>>
    /\ num_simulations = 0
    /\ max_spins = MaxSpinsInput
    /\ analysis = <<>>
    /\ raised = "none"
    /\ pc = "analyze_results"
    /\ strategy = NoStrategy
    /\ is_active = FALSE
    /\ total_spins = 0
    /\ wins = 0
    /\ losses = 0
    /\ bets = EmptyBet
    /\ bankroll_at_bet = 0
    /\ number = -1
    /\ winnings = 0
    /\ NoRecords

NextAnalyze == AnalyzeResults

SpecAnalyze == InitAnalyze /\ [][NextAnalyze]_vars

\* ------------------------------------------------------------------ sessions of any configuration

\* The classes driven with any configuration: one whose update_bankroll calls
\* BaseStrategy.update_bankroll and one whose update_bankroll replaces it.
\* (LabouchereStrategy's constructor does not return for a positive bankroll
\* and min_bet <= 0: the loop of initialize_sequence never ends.)
ConfigClasses == {"MartingaleStrategy", "OneThreeTwoSixStrategy"}

\* BaseStrategy.__init__ stores any initial_bankroll and min_bet it is given.
ConfigBankrolls == {-10, 0, 10}

ConfigMinBets == {-1, 0, 1}

InitConfig ==
    /\ \E cls \in ConfigClasses, ib \in ConfigBankrolls, mb \in ConfigMinBets :
           SessionInit(cls, ib, mb, MaxSpinsInput)
    /\ NoSimulator
    /\ NoRecords

SpecConfig == InitConfig /\ [][Next]_vars

\* ------------------------------------------------------------------ claims C11, C12

\* The labels _calculate_winnings has a test for.
C11_RecognisedLabels == OutsideLabels \cup StreetLabels \cup CornerLabels

\* C11: resolving a bet that holds a label the resolver does not recognise
\* (a straight-number label such as "17" or "0") ends in an input-validation
\* error: the call raises, it does not return winnings.
C11_UnknownLabelRejected ==
    (number >= 0 /\ \E l \in DOMAIN bets : l \notin C11_RecognisedLabels)
        => raised # "none"

\* The 38 values of the American wheel: 0, 1..36 and 00, written 37 here.
C12_AmericanWheel == 0 .. 37

\* C12: the values a wheel draw can produce are exactly the 38 values of the
\* American wheel: every number drawn is one of them, and before a draw each
\* of them can be the number drawn.
C12_DrawsAmericanWheel ==
    /\ number # -1 => number \in C12_AmericanWheel
    /\ number = -1 => \A v \in C12_AmericanWheel : ENABLED (Resolve /\ number' = v)

\* ------------------------------------------------------------------ claims C13, C14

\* The termination predicates in their priority order: bankruptcy, then max
\* spins reached, then profit target reached (a percentage above the initial
\* bankroll); "running" when none holds.
C13_FirstSatisfied ==
    IF strategy.current_bankroll < strategy.min_bet THEN "bankruptcy"
    ELSE IF total_spins >= max_spins THEN "max_spins_reached"
    ELSE IF strategy.current_bankroll * 100
              >= strategy.initial_bankroll * (100 + profit_target_percentage)
         THEN "profit_target_reached"
    ELSE "running"

\* The state the session is in after a tick: the loop of
\* play_until_bankruptcy ends on the bankruptcy flag and on nothing else.
C13_SessionState == IF Running THEN "running" ELSE "bankruptcy"

\* C13: after each tick the session is in the terminal state of the first
\* satisfied predicate in the order bankruptcy, max spins reached, profit
\* target reached, and goes on only when none is satisfied.
C13_TerminationPriority ==
    total_spins > 0 => C13_SessionState = C13_FirstSatisfied

\* The fields of a session result the claim lists.
C14_Fields == {"num_spins", "wins", "losses", "win_rate", "final_bankroll",
               "spins", "initial_bankroll", "termination_reason"}

\* C14: once the session has terminated, get_results holds every field of
\* the session result, termination_reason and initial_bankroll included.
C14_ResultHasAllFields ==
    (total_spins > 0 /\ ~Running) => C14_Fields \subseteq DOMAIN get_results

\* ------------------------------------------------------------------ claims C15..C18

\* C15: run_simulations(n) with n >= 1 returns a mapping that holds, for
\* each strategy passed to the Simulator, a list of exactly n session results.
C15_RunReturnsAllResults ==
    (pc # "run_simulations" /\ num_simulations >= 1)
        => \A i \in 1 .. Len(strategies) :
              \E j \in 1 .. Len(results) :
                  /\ results[j].name = strategies[i].cls
                  /\ Len(results[j].sessions) = num_simulations

\* The strategy run_simulations made for a session is a new object of the
\* class and configuration of a prototype: its bankroll is the initial
\* bankroll, it is not bankrupt, and its progression state is the initial one.
C16_InstanceIsNew ==
    strategy.cls # "none"
        => /\ \E i \in 1 .. Len(strategies) :
                /\ strategy.cls = strategies[i].cls
                /\ strategy.initial_bankroll = strategies[i].initial_bankroll
                /\ strategy.min_bet = strategies[i].min_bet
           /\ strategy.current_bankroll = strategy.initial_bankroll
           /\ ~strategy.is_bankrupt
           /\ strategy = NewStrategy(strategy.cls, strategy.initial_bankroll,
                                     strategy.min_bet)

C17_EmptyRunDoesNotRaise ==
    (num_simulations = 0 \/ max_spins = 0) => raised = "none"

\* C18: a strategy configured with a non-positive initial_bankroll or
\* min_bet is rejected before any session tick is executed.
C18_BadConfigRejected ==
    (strategy.initial_bankroll <= 0 \/ strategy.min_bet <= 0) => total_spins = 0

\* ------------------------------------------------------------------ claims C19, C20

\* A session the claim counts as successful: it ended with the profit target
\* reached, or with max spins reached and more than its initial bankroll.
C19_Successful(s) ==
    \/ s.termination_reason = "profit_target_reached"
    \/ /\ s.termination_reason = "max_spins_reached"
       /\ s.final_bankroll > s.initial_bankroll

\* The number of elements of a list that the claim counts as successful.
RECURSIVE C19_CountSuccessful(_)
C19_CountSuccessful(q) ==
    IF q = <<>> THEN 0
    ELSE (IF C19_Successful(Head(q)) THEN 1 ELSE 0) + C19_CountSuccessful(Tail(q))

\* C19: the success_rate analyze_results returns is the number of sessions
\* that ended with the profit target reached, or with max spins reached and a
\* final bankroll above the initial one, divided by the number of sessions;
\* a session that ended in bankruptcy is never counted.
C19_SuccessRate ==
    (pc = "done" /\ raised = "none" /\ analysis # <<>>)
        => LET sessions == results[1].sessions
               rate == analysis[1].stats.success_rate
           IN  rate.num * Len(sessions) = C19_CountSuccessful(sessions) * rate.den

\* Three sessions that all ended above their initial bankroll, one for each
\* termination reason: the bankrupt one is not counted, the rate is 2/3.
C19_Witness ==
    /\ pc = "done"
    /\ raised = "none"
    /\ analysis # <<>>
    /\ Len(results[1].sessions) = 3
    /\ {results[1].sessions[i].termination_reason : i \in 1 .. 3} = TerminationReasons
    /\ \A i \in 1 .. 3 : results[1].sessions[i].final_bankroll > 10
    /\ analysis[1].stats.success_rate = Frac(2, 3)

\* C20: the win_rate analyze_results returns for a strategy is the total
\* number of winning spins over all its sessions divided by the total number
\* of spins over all its sessions.
C20_PooledWinRate ==
    (pc = "done" /\ raised = "none" /\ analysis # <<>>)
        => LET sessions == results[1].sessions
               total_wins == SumSeq([i \in 1 .. Len(sessions) |-> sessions[i].wins])
               all_spins == SumSeq([i \in 1 .. Len(sessions) |-> sessions[i].num_spins])
               rate == analysis[1].stats.win_rate
           IN  rate.num * all_spins = total_wins * rate.den

\* A fraction in [0, 1].
C21_InUnitInterval(q) == q.den > 0 /\ 0 <= q.num /\ q.num <= q.den

\* The session lists the statement is about.
C21_WellFormed(sessions) ==
    /\ sessions # <<>>
    /\ \A i \in 1 .. Len(sessions) :
          /\ "termination_reason" \in DOMAIN sessions[i]
          /\ sessions[i].termination_reason \in TerminationReasons
          /\ sessions[i].num_spins >= 1
          /\ 0 <= sessions[i].wins
          /\ sessions[i].wins <= sessions[i].num_spins

\* C21: for a non-empty list of session results with 0 <= wins <= num_spins,
\* num_spins >= 1 and one termination reason each, the success_rate and the
\* win_rate analyze_results returns both lie in [0, 1].
C21_RatesInUnitInterval ==
    (pc = "done" /\ C21_WellFormed(results[1].sessions))
        => /\ raised = "none"
           /\ analysis # <<>>
           /\ C21_InUnitInterval(analysis[1].stats.success_rate)
           /\ C21_InUnitInterval(analysis[1].stats.win_rate)

\* Three sessions that all reached the profit target and won every spin: both
\* rates are 1, the upper end of the interval.
C21_Witness ==
    /\ pc = "done"
    /\ C21_WellFormed(results[1].sessions)
    /\ Len(results[1].sessions) = 3
    /\ \A i \in 1 .. 3 :
          /\ results[1].sessions[i].termination_reason = "profit_target_reached"
          /\ results[1].sessions[i].final_bankroll > 10
          /\ results[1].sessions[i].wins = results[1].sessions[i].num_spins
    /\ analysis[1].stats.success_rate.num = analysis[1].stats.success_rate.den
    /\ analysis[1].stats.win_rate.num = analysis[1].stats.win_rate.den

\* ------------------------------------------------------------------ progression sessions

\* Sessions of the strategies that stake on red by a progression of their
\* own and keep BaseStrategy.update_bankroll.
ProgressionClasses == {"FibonacciStrategy", "DAlembertStrategy", "ParoliStrategy",
                       "OscarStrategy"}

InitProgressions ==
    /\ \E cls \in ProgressionClasses, ib \in InitialBankrolls, mb \in MinBets :
           SessionInit(cls, ib, mb, MaxSpinsInput)
    /\ NoSimulator
    /\ NoRecords

SpecProgressions == InitProgressions /\ [][Next]_vars

\* ------------------------------------------------------------------ claims C25, C26

\* The stake the k-th bet of a losing streak is to have: base_bet * F[k-1],
\* F counted from 0, and 55 * base_bet from the tenth bet on.
C25_ClaimedStake(s) ==
    LET k == s.consecutive_losses + 1
    IN  s.base_bet * fibonacci_sequence[Min(k, Len(fibonacci_sequence))]

\* C25: in a Fibonacci session the k-th bet of an unbroken losing streak
\* (k = 1 for the bet placed with no loss before it, so also the bet after
\* any spin that is not a loss) stakes base_bet * F[k-1] for
\* F = 1, 1, 2, 3, 5, 8, 13, 21, 34, 55, whenever the bankroll covers it.
C25_FibonacciStakes ==
    [][(/\ strategy.cls = "FibonacciStrategy"
        /\ C25_ClaimedStake(strategy) <= strategy.current_bankroll)
          => bets'["red"] = C25_ClaimedStake(strategy)]_vars

\* The stake the bet after the latest spin is to have.
C26_ClaimedStake ==
    IF winnings < 0
    THEN bets["red"] + strategy.bet_increment
    ELSE Max(strategy.base_bet, bets["red"] - strategy.bet_increment)

\* C26: in a D'Alembert session, the bankroll clamping no bet, the bet after
\* a losing spin is one bet_increment above the bet before it, and the bet
\* after a winning spin one bet_increment below it, but never below base_bet.
C26_DAlembertSteps ==
    [][(/\ strategy.cls = "DAlembertStrategy"
        /\ total_spins > 0
        /\ bets["red"] < bankroll_at_bet
        /\ C26_ClaimedStake <= strategy.current_bankroll)
          => bets'["red"] = C26_ClaimedStake]_vars

\* ------------------------------------------------------------------ claims C24, C29, C30

\* The sequence without its first and last entries (without its only entry
\* when one remains).
C24_EndsRemoved(seq) ==
    IF Len(seq) > 1 THEN SubSeq(seq, 2, Len(seq) - 1) ELSE <<>>

\* C24: in a Labouchere session a winning spin removes the first and the
\* last entry of the sequence (the only entry when one remains; the sequence
\* is then initialised again), and a losing spin appends one entry, equal to
\* the stake lost on that spin.
C24_LabouchereUpdate ==
    [][strategy.cls = "LabouchereStrategy"
         => /\ winnings' > 0
                => \/ strategy'.sequence = C24_EndsRemoved(strategy.sequence)
                   \/ /\ C24_EndsRemoved(strategy.sequence) = <<>>
                      /\ strategy'.sequence
                           = initialize_sequence(<<>>, strategy.target_profit,
                                                 strategy.base_bet)
            /\ winnings' < 0
                => strategy'.sequence = Append(strategy.sequence, -winnings')]_vars

\* The stake the bet after consecutive_wins wins in a row is to have.
C29_ClaimedStake(s) == s.base_bet * bet_multipliers[s.consecutive_wins + 1]

\* C29: in a 1-3-2-6 session the bets of an unbroken winning streak stake
\* base_bet times 1, 3, 2, 6 in that order, the first of them being the bet
\* placed with no win before it (so also the bet after any spin that is not
\* a win), whenever the bankroll covers the stake and the profit target has
\* not restarted the streak.
C29_StreakStakes ==
    [][(/\ strategy.cls = "OneThreeTwoSixStrategy"
        /\ strategy.consecutive_wins < Len(bet_multipliers)
        /\ C29_ClaimedStake(strategy) <= strategy.current_bankroll)
          => bets'["red"] = C29_ClaimedStake(strategy)]_vars

\* Labouchere sessions on their own, over more inputs: sequences of one to
\* five entries, with a last entry smaller than base_bet (30 and 2).
LabouchereBankrolls == {10, 20, 30, 50}

LabouchereMinBets == {1, 2}

InitLabouchere ==
    /\ \E ib \in LabouchereBankrolls, mb \in LabouchereMinBets :
           SessionInit("LabouchereStrategy", ib, mb, MaxSpinsInput)
    /\ NoSimulator
    /\ NoRecords

SpecLabouchere == InitLabouchere /\ [][Next]_vars

\* C30: a Labouchere sequence starts with entries that add up to
\* target_profit and is never empty; every tick whose bet the bankroll does
\* not clamp moves the sum of the entries by the opposite of the winnings,
\* so that the sum plus the profit made since the sequence was initialised
\* stays equal to target_profit, and a win that uses up the entries starts
\* again from a sequence that adds up to target_profit.
C30_SequenceSum ==
    /\ (strategy.cls = "LabouchereStrategy" /\ total_spins = 0)
          => /\ strategy.sequence # <<>>
             /\ SumSeq(strategy.sequence) = strategy.target_profit
    /\ [][(/\ strategy.cls = "LabouchereStrategy"
           /\ LabouchereEnds(strategy.sequence) <= strategy.current_bankroll)
             => /\ strategy'.sequence # <<>>
                /\ SumSeq(strategy'.sequence)
                     = IF SumSeq(strategy.sequence) - winnings' = 0
                       THEN strategy.target_profit
                       ELSE SumSeq(strategy.sequence) - winnings']_vars

\* Two losses and a win, none clamped, the sequence never used up: the
\* entries and the profit since the start add up to target_profit.
C30_Witness ==
    /\ strategy.cls = "LabouchereStrategy"
    /\ wins >= 1
    /\ losses >= 2
    /\ winnings > 0
    /\ Len(strategy.sequence) >= 2
    /\ SumSeq(strategy.sequence)
         + (strategy.current_bankroll - strategy.initial_bankroll)
       = strategy.target_profit

\* ------------------------------------------------------------------ claim C28

\* The outcomes the James Bond bet covers: 0 and 13 to 36.
C28_Covered == {0} \cup 13 .. 36

\* C28: the bet JamesBondStrategy places, resolved by _calculate_winnings,
\* yields positive net winnings on each of the 25 outcomes it covers (0 and
\* 13 to 36) and the loss of the whole stake of 20 units on every other
\* outcome.
C28_JamesBondPays ==
    (number # -1 /\ bets \in JamesBondBets)
        => IF number \in C28_Covered
           THEN winnings > 0
           ELSE winnings = -TotalBet(bets)

\* ------------------------------------------------------------------ sessions with their spin records

\* The sessions whose list of spin records is kept are cut after MaxRecords
\* ticks.
MaxRecords == 8

\* Classes that stake on red, with and without BaseStrategy.update_bankroll.
RecordClasses == {"MartingaleStrategy", "LabouchereStrategy", "OneThreeTwoSixStrategy"}

\* GameSession.__init__: self.spins = [] and self.bankroll_history =
\* [strategy.current_bankroll].
KeepRecords ==
    /\ spins = <<>>
    /\ bankroll_history = <<strategy.current_bankroll>>
    /\ keep_spins = TRUE
    /\ twin = NoTwin
    /\ frame = NoFrame
    /\ history = NoHistory

InitRecords ==
    /\ \E cls \in RecordClasses, ib \in InitialBankrolls, mb \in MinBets :
           SessionInit(cls, ib, mb, MaxSpinsInput)
    /\ NoSimulator
    /\ KeepRecords

NextRecords == total_spins < MaxRecords /\ Tick

SpecRecords == InitRecords /\ [][NextRecords]_vars

\* ------------------------------------------------------------------ claim C27

\* The sum of the winnings of the first k records.
RECURSIVE C27_WinningsUpTo(_)
C27_WinningsUpTo(k) ==
    IF k = 0 THEN 0 ELSE spins[k].winnings + C27_WinningsUpTo(k - 1)

\* C27: every tick appends one spin record, which carries the net winnings
\* of the tick and the bankroll after update_bankroll, so that the bankroll
\* of every record is initial_bankroll plus the sum of the winnings of the
\* records up to it; the records appended earlier are not changed by later
\* ticks.
C27_SpinRecords ==
    /\ [](/\ Len(spins) = total_spins
          /\ total_spins > 0
               => /\ spins[Len(spins)].winnings = winnings
                  /\ spins[Len(spins)].bets = bets
                  /\ spins[Len(spins)].bankroll = strategy.current_bankroll
          /\ \A k \in 1 .. Len(spins) :
               spins[k].bankroll = strategy.initial_bankroll + C27_WinningsUpTo(k))
    /\ [][/\ Len(spins') = Len(spins) + 1
          /\ SubSeq(spins', 1, Len(spins)) = spins]_vars

\* Three records or more, of winning and of losing ticks.
C27_Witness ==
    /\ keep_spins
    /\ Len(spins) >= 3
    /\ \E k \in 1 .. Len(spins) : spins[k].winnings > 0
    /\ \E k \in 1 .. Len(spins) : spins[k].winnings < 0
    /\ spins[Len(spins)].bankroll # strategy.initial_bankroll

\* ------------------------------------------------------------------ reset, called directly

\* A caller drives a strategy object by its methods: calculate_bet and
\* update_bankroll in any order, then reset.  At the reset it constructs a
\* second object of the same class from the same (initial_bankroll, min_bet),
\* and from then on makes every call on both.  twin.calls counts the calls
\* since the construction, and again since the reset.
MaxCalls == 8

\* The classes with a reset of their own that the model drives.
ResetClasses == {"MartingaleStrategy", "FibonacciStrategy", "DAlembertStrategy",
                 "ParoliStrategy", "OscarStrategy", "LabouchereStrategy",
                 "OneThreeTwoSixStrategy", "JamesBondStrategy"}

\* The constructor arguments drawn for a class.
ResetInputs(cls) ==
    IF cls = "JamesBondStrategy"
    THEN JamesBondBankrolls \X JamesBondMinBets
    ELSE InitialBankrolls \X MinBets

\* The winnings handed to update_bankroll: the latest bet lost, or won at
\* even money (0 before any bet).
CallWinnings(b) == {-TotalBet(b), TotalBet(b)}

InitReset ==
    /\ \E cls \in ResetClasses :
         \E a \in ResetInputs(cls) : strategy = NewStrategy(cls, a[1], a[2])
    /\ is_active = FALSE
    /\ total_spins = 0
    /\ wins = 0
    /\ losses = 0
    /\ bets = EmptyBet
    /\ bankroll_at_bet = 0
    /\ number = -1
    /\ winnings = 0
    /\ max_spins = MaxSpinsInput
    /\ strategies = <<>>
    /\ num_simulations = 0
    /\ results = <<>>
    /\ analysis = <<>>
    /\ raised = "none"
    /\ pc = "calls"
    /\ NoRecords

\* strategy.calculate_bet(), before the reset
CallCalculateBet ==
    /\ pc = "calls"
    /\ twin.calls < MaxCalls
    /\ LET cb == CalculateBet(strategy, 0)
       IN  /\ strategy' = cb.s
           /\ bets' = cb.bet
    /\ twin' = [twin EXCEPT !.calls = @ + 1]
    /\ UNCHANGED <<is_active, total_spins, wins, losses, bankroll_at_bet, number,
                   winnings, max_spins, spins, bankroll_history, keep_spins,
                   frame, history>>
    /\ UNCHANGED simVars

\* strategy.update_bankroll(w), before the reset
CallUpdateBankroll ==
    /\ pc = "calls"
    /\ twin.calls < MaxCalls
    /\ \E w \in CallWinnings(bets) :
         /\ strategy' = UpdateBankroll(strategy, w, 0)
         /\ winnings' = w
    /\ twin' = [twin EXCEPT !.calls = @ + 1]
    /\ UNCHANGED <<is_active, total_spins, wins, losses, bets, bankroll_at_bet,
                   number, max_spins, spins, bankroll_history, keep_spins,
                   frame, history>>
    /\ UNCHANGED <<strategies, num_simulations, results, analysis, raised, pc>>

\* strategy.reset(), and the construction of the second object
CallReset ==
    /\ pc = "calls"
    /\ strategy' = Reset(strategy)
    /\ twin' = [strategy |-> NewStrategy(strategy.cls, strategy.initial_bankroll,
                                         strategy.min_bet),
                bets     |-> EmptyBet,
                calls    |-> 0]
    /\ bets' = EmptyBet
    /\ pc' = "after_reset"
    /\ UNCHANGED <<is_active, total_spins, wins, losses, bankroll_at_bet, number,
                   winnings, max_spins, spins, bankroll_history, keep_spins,
                   frame, history>>
    /\ UNCHANGED <<strategies, num_simulations, results, analysis, raised>>

\* calculate_bet() on both objects
BothCalculateBet ==
    /\ pc = "after_reset"
    /\ twin.calls < MaxCalls
    /\ LET cb == CalculateBet(strategy, 0)
           tb == CalculateBet(twin.strategy, 0)
       IN  /\ strategy' = cb.s
           /\ bets' = cb.bet
           /\ twin' = [strategy |-> tb.s, bets |-> tb.bet, calls |-> twin.calls + 1]
    /\ UNCHANGED <<is_active, total_spins, wins, losses, bankroll_at_bet, number,
                   winnings, max_spins, spins, bankroll_history, keep_spins,
                   frame, history>>
    /\ UNCHANGED simVars

\* update_bankroll(w) on both objects, with the same w
BothUpdateBankroll ==
    /\ pc = "after_reset"
    /\ twin.calls < MaxCalls
    /\ \E w \in CallWinnings(bets) \cup CallWinnings(twin.bets) :
         /\ strategy' = UpdateBankroll(strategy, w, 0)
         /\ twin' = [twin EXCEPT !.strategy = UpdateBankroll(twin.strategy, w, 0),
                                 !.calls = @ + 1]
         /\ winnings' = w
    /\ UNCHANGED <<is_active, total_spins, wins, losses, bets, bankroll_at_bet,
                   number, max_spins, spins, bankroll_history, keep_spins,
                   frame, history>>
    /\ UNCHANGED simVars

NextReset ==
    \/ CallCalculateBet
    \/ CallUpdateBankroll
    \/ CallReset
    \/ BothCalculateBet
    \/ BothUpdateBankroll

SpecReset == InitReset /\ [][NextReset]_vars

\* ------------------------------------------------------------------ claim C22

\* C22: for Martingale, Fibonacci, D'Alembert, Paroli, Oscar, Labouchere,
\* 1-3-2-6 and James Bond, a strategy that was reset after any calls of
\* calculate_bet and update_bankroll answers every further sequence of calls
\* as a newly constructed instance with the same initial_bankroll and min_bet
\* does: the same bets, the same bankroll, the same is_bankrupt.
C22_ResetIsFresh ==
    pc = "after_reset"
        => /\ bets = twin.bets
           /\ strategy.current_bankroll = twin.strategy.current_bankroll
           /\ strategy.is_bankrupt = twin.strategy.is_bankrupt

\* A Martingale strategy that had lost a raised stake when it was reset (the
\* winnings of the caller's last update_bankroll, made before the reset) and
\* has returned its first bet since: base_bet, from the initial bankroll.
C22_Witness ==
    /\ pc = "after_reset"
    /\ strategy.cls = "MartingaleStrategy"
    /\ twin.calls = 1
    /\ winnings < -strategy.base_bet
    /\ bets = ("red" :> strategy.base_bet)
    /\ strategy.current_bankroll = strategy.initial_bankroll

\* ------------------------------------------------------------------ claim C31

\* C31: in a D'Alembert session the stake never exceeds base_bet +
\* 4 * bet_increment, and the bet placed after the fifth loss in a row is
\* base_bet, the loss counter starting again from 0 (so that it is 1 after
\* that bet if it loses, 0 if not).
C31_ProgressionCapped ==
    /\ []((strategy.cls = "DAlembertStrategy" /\ total_spins > 0)
            => bets["red"] <= strategy.base_bet + 4 * strategy.bet_increment)
    /\ [][(/\ strategy.cls = "DAlembertStrategy"
           /\ strategy.consecutive_losses = 5)
             => /\ bets'["red"] = strategy.base_bet
                /\ strategy'.consecutive_losses
                     = IF winnings' < 0 THEN 1 ELSE 0]_vars

\* The sixth bet of a session that lost its first five, stakes 1 to 5.
C31_Witness ==
    /\ strategy.cls = "DAlembertStrategy"
    /\ total_spins = 6
    /\ bankroll_at_bet = strategy.initial_bankroll - 15 * strategy.base_bet
    /\ bets = ("red" :> strategy.base_bet)

\* ------------------------------------------------------------------ claim C32

\* C32: in a Paroli session the win counter is 0, 1 or 2 after every
\* update_bankroll, every stake is base_bet, 2 * base_bet or 4 * base_bet (or
\* the bankroll, when it clamps the bet), and the bet after a spin that did
\* not win is base_bet.
C32_WinCounterBounded ==
    /\ [](strategy.cls = "ParoliStrategy"
            => /\ strategy.consecutive_wins \in {0, 1, 2}
               /\ total_spins > 0
                    => \/ bets["red"] \in {strategy.base_bet, 2 * strategy.base_bet,
                                           4 * strategy.base_bet}
                       \/ bets["red"] = bankroll_at_bet)
    /\ [][(/\ strategy.cls = "ParoliStrategy"
           /\ total_spins > 0
           /\ winnings <= 0)
             => bets'["red"] = strategy.base_bet]_vars

\* A bet of 4 * base_bet that the bankroll covers, placed after two wins in
\* a row.
C32_Witness ==
    /\ strategy.cls = "ParoliStrategy"
    /\ bets = ("red" :> 4 * strategy.base_bet)
    /\ bankroll_at_bet > 4 * strategy.base_bet

\* ------------------------------------------------------------------ claim C33

\* The records of the ticks with strictly positive winnings.
C33_WinningRecords == {k \in 1 .. Len(spins) : spins[k].winnings > 0}

\* C33: at every point of a session wins + losses = total_spins = the number
\* of spin records, the bankroll history has total_spins + 1 entries, the
\* wins are the ticks with strictly positive net winnings (a tick with zero
\* winnings is a loss), and get_results reports win_rate = wins /
\* total_spins, or 0 when no spin was played.
C33_SessionCounters ==
    /\ wins + losses = total_spins
    /\ total_spins = Len(spins)
    /\ Len(bankroll_history) = total_spins + 1
    /\ wins = Cardinality(C33_WinningRecords)
    /\ losses = Len(spins) - Cardinality(C33_WinningRecords)
    /\ get_results.num_spins = total_spins
    /\ get_results.wins = wins
    /\ get_results.losses = losses
    /\ IF total_spins = 0
       THEN get_results.win_rate.num = 0
       ELSE get_results.win_rate.num * total_spins = wins * get_results.win_rate.den

\* A session with a win and with a tick of zero winnings (a stake of 0, from
\* a bankroll of 0), counted as a loss.
C33_Witness ==
    /\ keep_spins
    /\ wins >= 1
    /\ winnings = 0
    /\ total_spins >= 3
    /\ spins[Len(spins)].winnings = 0
    /\ losses = total_spins - wins

\* ------------------------------------------------------------------ claim C34

\* The outside labels: the colours, the parities, the dozens, the columns.
C34_OutsideLabels == {"red", "black", "even", "odd",
                      "first_dozen", "second_dozen", "third_dozen",
                      "first_column", "second_column", "third_column"}

\* C34: when the outcome is 0, a bet made of outside labels only (red,
\* black, even, odd, a dozen, a column) loses its whole stake:
\* _calculate_winnings returns minus the total stake.
C34_ZeroBeatsOutsideBets ==
    (number = 0 /\ DOMAIN bets \subseteq C34_OutsideLabels)
        => winnings = -TotalBet(bets)

\* The outcome 0 against a bet on even and on a column.
C34_Witness ==
    /\ number = 0
    /\ DOMAIN bets = {"even", "third_column"}
    /\ winnings = -TotalBet(bets)
    /\ winnings < 0

\* ------------------------------------------------------------------ RouletteSimulator.simulate_martingale

\* The largest starting_bankroll handed to simulate_martingale.
MaxStartingBankroll == 6

\* The largest base_bet and the largest max_bet handed to simulate_martingale.
MaxBaseBet == 2

\* max_bet=None, the default of simulate_martingale: no cap on the bet.
None == -1

\* RouletteSimulator.__init__: self.wheel = list(range(1, 37)) + [0, 00] for
\* the American wheel and list(range(1, 37)) + [0] for the European one.  The
\* Python literal 00 is the integer 0, so simulate_spin (random.choice of the
\* wheel) draws from 0..36 on both wheels.
wheel == (1 .. 36) \cup {0}

\* The bet types simulate_martingale knows, and one it does not know.
MartingaleBetTypes == {"red_black", "odd_even", "high_low"}

\* bet_numbers of simulate_martingale for the bet types it knows.
bet_numbers(bet_type) ==
    CASE bet_type = "red_black" ->
             {1, 3, 5, 7, 9, 12, 14, 16, 18, 19, 21, 23, 25, 27, 30, 32, 34, 36}
      [] bet_type = "odd_even" -> {n \in 1 .. 36 : n % 2 = 1}
      [] bet_type = "high_low" -> 1 .. 18

\* RouletteSimulator.check_win
check_win(bet, winning_number) == winning_number \in bet

\* The locals of simulate_martingale before its loop.
SimulateMartingaleCall(bet_type, starting_bankroll, base_bet, spins_arg, max_bet) ==
    [fn |-> "simulate_martingale",
     bet_type |-> bet_type,
     starting_bankroll |-> starting_bankroll,
     base_bet |-> base_bet,
     max_spins |-> spins_arg,
     max_bet |-> max_bet,
     bankroll |-> starting_bankroll,
     bankroll_history |-> <<starting_bankroll>>,
     spin_count |-> 0,
     win_count |-> 0,
     current_bet |-> base_bet,
     consecutive_losses |-> 0,
     returned |-> <<>>]

MartingaleLoopConditionNoBankroll(f) == f.spin_count < f.max_spins

\* The condition of the while loop of simulate_martingale.
MartingaleLoopCondition(f) ==
    f.bankroll >= f.current_bet /\ f.spin_count < f.max_spins

\* One iteration of the loop with the outcome is_win.
MartingaleIteration(f, is_win) ==
    LET doubled == f.current_bet * 2
        next_bet == IF is_win THEN f.base_bet
                    ELSE IF f.max_bet # None /\ doubled > f.max_bet
                         THEN f.max_bet
                         ELSE doubled
        net_return == IF is_win THEN f.current_bet ELSE -f.current_bet
    IN  [f EXCEPT !.consecutive_losses = IF is_win THEN 0 ELSE @ + 1,
                  !.current_bet = next_bet,
                  !.win_count = IF is_win THEN @ + 1 ELSE @,
                  !.bankroll = @ + net_return,
                  !.bankroll_history = Append(@, f.bankroll + net_return),
                  !.spin_count = @ + 1]

\* The dictionary simulate_martingale returns.
MartingaleResult(f) ==
    [bankroll_history |-> f.bankroll_history,
     final_bankroll |-> f.bankroll,
     spins |-> f.spin_count,
     wins |-> f.win_count,
     win_rate |-> IF f.spin_count > 0 THEN Frac(f.win_count, f.spin_count)
                  ELSE Frac(0, 1),
     profit |-> f.bankroll - f.starting_bankroll,
     profit_percentage |-> Frac((f.bankroll - f.starting_bankroll) * 100,
                                f.starting_bankroll),
     max_consecutive_losses |-> f.consecutive_losses]

\* A caller that holds a RouletteSimulator and calls simulate_martingale once.
InitSimulateMartingale ==
    /\ \E bet_type \in MartingaleBetTypes \cup {"dozens"},
          starting_bankroll \in 0 .. MaxStartingBankroll,
          base_bet \in 1 .. MaxBaseBet,
          spins_arg \in 0 .. MaxSpinsInput,
          max_bet \in {None} \cup (1 .. MaxBaseBet) :
          frame = SimulateMartingaleCall(bet_type, starting_bankroll, base_bet,
                                         spins_arg, max_bet)
    /\ history = NoHistory
    /\ spins = <<>>
    /\ bankroll_history = <<>>
    /\ keep_spins = FALSE
    /\ twin = NoTwin
    /\ strategy = NoStrategy
    /\ is_active = FALSE
    /\ total_spins = 0
    /\ wins = 0
    /\ losses = 0
    /\ bets = EmptyBet
    /\ bankroll_at_bet = 0
    /\ number = -1
    /\ winnings = 0
    /\ max_spins = MaxSpinsInput
    /\ strategies = <<>>
    /\ num_simulations = 0
    /\ results = <<>>
    /\ analysis = <<>>
    /\ raised = "none"
    /\ pc = "simulate_martingale"

\* The variables simulate_martingale and execute_strategy leave alone.
sessionVars == <<strategy, is_active, total_spins, wins, losses, bets,
                 bankroll_at_bet, number, winnings, max_spins, strategies,
                 num_simulations, results, analysis, spins, bankroll_history,
                 keep_spins, twin, history>>

\* One iteration of the while loop: the bet type is looked up (an unknown one
\* raises ValueError), the wheel is spun and the locals are updated.
SimulateMartingaleSpin ==
    /\ pc = "simulate_martingale"
    /\ MartingaleLoopCondition(frame)
    /\ IF frame.bet_type \in MartingaleBetTypes
       THEN /\ \E winning_number \in wheel :
                 frame' = MartingaleIteration(frame,
                              check_win(bet_numbers(frame.bet_type), winning_number))
            /\ UNCHANGED <<raised, pc>>
       ELSE /\ raised' = "ValueError"
            /\ pc' = "done"
            /\ UNCHANGED frame
    /\ UNCHANGED sessionVars

\* The loop condition is false: the statistics are computed (the division by
\* starting_bankroll raises ZeroDivisionError when it is 0) and the dictionary
\* is returned.
SimulateMartingaleReturn ==
    /\ pc = "simulate_martingale"
    /\ ~MartingaleLoopCondition(frame)
    /\ IF frame.starting_bankroll = 0
       THEN /\ raised' = "ZeroDivisionError"
            /\ UNCHANGED frame
       ELSE /\ frame' = [frame EXCEPT !.returned = <<MartingaleResult(frame)>>]
            /\ UNCHANGED raised
    /\ pc' = "done"
    /\ UNCHANGED sessionVars

NextSimulateMartingale == SimulateMartingaleSpin \/ SimulateMartingaleReturn

SpecSimulateMartingale == InitSimulateMartingale /\ [][NextSimulateMartingale]_vars

\* The scheduler keeps running the call until it ends.
FairSimulateMartingale == SpecSimulateMartingale /\ WF_vars(NextSimulateMartingale)

\* The bet that follows a losing spin staked at current_bet: twice the stake,
\* and max_bet instead when max_bet is given and the double exceeds it.
C35_AfterLoss(f) ==
    IF f.max_bet # None THEN Min(2 * f.current_bet, f.max_bet)
    ELSE 2 * f.current_bet

\* A step that plays a spin starts with bankroll >= current_bet; the bet after
\* a winning spin is base_bet and the bet after a losing spin is the double,
\* capped at max_bet.
C35_SpinStep ==
    frame'.spin_count = frame.spin_count + 1 =>
        /\ frame.bankroll >= frame.current_bet
        /\ frame'.win_count = frame.win_count + 1 =>
               frame'.current_bet = frame.base_bet
        /\ frame'.win_count = frame.win_count =>
               frame'.current_bet = C35_AfterLoss(frame)

\* C35: every call of simulate_martingale ends, it has played at most
\* max_spins spins at every moment, its bankroll is never below 0, a spin is
\* played only when bankroll >= current bet, the bet after a loss is the double
\* (max_bet when that is given and the double exceeds it) and the bet after a
\* win is base_bet.
C35_MartingaleLoop ==
    /\ [](frame.spin_count <= frame.max_spins /\ frame.bankroll >= 0)
    /\ [][C35_SpinStep]_vars
    /\ <>(pc = "done")

\* A call that returned after max_spins = 3 spins: a loss at 1, a loss at 2,
\* the double 4 capped at max_bet = 2, a win at 2, and the bet back at 1.
C35_Witness ==
    /\ pc = "done"
    /\ raised = "none"
    /\ frame.max_bet = 2
    /\ frame.bankroll_history = <<6, 5, 3, 5>>
    /\ frame.current_bet = 1
    /\ frame.returned # <<>>

\* The longest run of consecutive decreases that ends at position i of a list
\* of bankrolls, and the longest such run up to position i.
RECURSIVE C36_RunEndingAt(_, _)
C36_RunEndingAt(h, i) ==
    IF i <= 1 THEN 0
    ELSE IF h[i] < h[i - 1] THEN C36_RunEndingAt(h, i - 1) + 1
    ELSE 0

RECURSIVE C36_LongestRun(_, _)
C36_LongestRun(h, i) ==
    IF i <= 1 THEN 0
    ELSE Max(C36_RunEndingAt(h, i), C36_LongestRun(h, i - 1))

\* C36: the max_consecutive_losses a call of simulate_martingale returns is
\* the length of the longest run of consecutive losing spins of the session
\* (a losing spin lowers the bankroll, a winning one raises it).
C36_LongestLosingRun ==
    (pc = "done" /\ frame.returned # <<>>) =>
        frame.returned[1].max_consecutive_losses =
            C36_LongestRun(frame.bankroll_history, Len(frame.bankroll_history))

\* ------------------------------------------------------------------ History

\* The number of update_strategy_history calls the caller makes.
MaxUpdates == 3

\* The win rates reported to the History are 0..MaxWinRate.
MaxWinRate == 2

\* The strategy names the caller reports.
HistoryNames == {"MartingaleStrategy", "ParoliStrategy"}

\* dict.get(key, default)
Get(d, key, default) == IF key \in DOMAIN d THEN d[key] ELSE default

\* History.get_strategy_history: self.history.get(strategy_name, {}); the
\* empty dictionary is the empty function.
get_strategy_history(h, strategy_name) == Get(h.history, strategy_name, <<>>)

\* self.history[strategy_name] = entry
SetItem(d, key, entry) ==
    [k \in DOMAIN d \cup {key} |-> IF k = key THEN entry ELSE d[k]]

\* History.update_strategy_history at the time current_time: the entry of the
\* strategy is replaced, the dictionary is saved to the file, and (improved,
\* improvement) is returned.
update_strategy_history(h, strategy_name, win_rate, best_numbers, wins_count, current_time) ==
    LET strategy_history == get_strategy_history(h, strategy_name)
        previous_best == Get(strategy_history, "best_win_rate", 0)
        improved == win_rate > previous_best
        improvement == IF improved THEN win_rate - previous_best ELSE 0
        entry == [best_win_rate |-> win_rate,
                  best_numbers |-> best_numbers,
                  wins_count |-> wins_count,
                  last_update |-> current_time,
                  previous_best |-> previous_best]
        updated == SetItem(h.history, strategy_name, entry)
    IN  [history |-> updated,
         file |-> updated,
         clock |-> current_time,
         returned |-> <<improved, improvement>>]

\* History(): the file does not exist yet, _load_history returns {}.
InitHistory ==
    /\ history = [history |-> <<>>, file |-> <<>>, clock |-> 0, returned |-> <<>>]
    /\ frame = NoFrame
    /\ spins = <<>>
    /\ bankroll_history = <<>>
    /\ keep_spins = FALSE
    /\ twin = NoTwin
    /\ strategy = NoStrategy
    /\ is_active = FALSE
    /\ total_spins = 0
    /\ wins = 0
    /\ losses = 0
    /\ bets = EmptyBet
    /\ bankroll_at_bet = 0
    /\ number = -1
    /\ winnings = 0
    /\ max_spins = MaxSpinsInput
    /\ strategies = <<>>
    /\ num_simulations = 0
    /\ results = <<>>
    /\ analysis = <<>>
    /\ raised = "none"
    /\ pc = "update_strategy_history"

\* One call of update_strategy_history.  datetime.now() is later at every
\* call: the time of a call is its index.
UpdateStrategyHistory ==
    /\ pc = "update_strategy_history"
    /\ history.clock < MaxUpdates
    /\ \E strategy_name \in HistoryNames, win_rate \in 0 .. MaxWinRate,
          best_numbers \in {<<>>, <<17>>} :
          history' = update_strategy_history(history, strategy_name, win_rate,
                         best_numbers, Len(best_numbers), history.clock + 1)
    /\ UNCHANGED <<strategy, is_active, total_spins, wins, losses, bets,
                   bankroll_at_bet, number, winnings, max_spins, strategies,
                   num_simulations, results, analysis, raised, pc, spins,
                   bankroll_history, keep_spins, twin, frame>>

NextHistory == UpdateStrategyHistory

SpecHistory == InitHistory /\ [][NextHistory]_vars

\* C38: across update_strategy_history calls the stored best_win_rate of a
\* strategy never decreases: a strategy that has an entry keeps one, and the
\* best_win_rate of its entry after a call is at least the one before it.
C38_BestWinRateNeverDecreases ==
    [][\A name \in DOMAIN history.history :
           /\ name \in DOMAIN history'.history
           /\ history'.history[name].best_win_rate >=
                  history.history[name].best_win_rate]_vars

\* ------------------------------------------------------------------ AdvancedBettingStrategy.execute_strategy

\* The bankroll of an AdvancedBettingStrategy is a float.  The model counts it
\* in fifteenths of a unit and starts it at 0..MaxStartingBankroll units: a
\* bankroll that passes the stop conditions is then a whole number of units
\* up to 10, for which calculate_bet_size returns min_bet = 1, and a win at
\* 38/5 or 38/3 (a whole number of fifteenths) reaches the profit target.
Unit == 15

\* KellyOptimizer.calculate_fractional_kelly returns max(0.01, min(0.1, f)):
\* a fraction between 0.01 and 0.1, here in thousandths.  The value depends on
\* the hit rate of the sector in the analyzer's random history.
KellyFractions == {10, 100}

\* The bets select_best_bet can return, by what execute_strategy reads of
\* them: the payout minus 1 as a fraction, the strategy name handed to
\* calculate_bet_size ("strategy_type" stands for self.strategy_type) and the
\* fractions calculate_fractional_kelly can return for them.  The sector bets
\* pay 2 (red, black, even, odd, high, low), 3 (dozens and columns) and
\* 1 / coverage (38/5 and 38/3 for the wheel sectors of 5 and 3 numbers, 19
\* for 'green'); the colour bet and the split on 0 and 00 have a negative
\* edge, so their fraction is the lower end 0.01.
AdvancedBets ==
    {[type |-> "sector", odds |-> o, strategy |-> "strategy_type", kelly |-> k] :
         o \in {Frac(1, 1), Frac(2, 1), Frac(33, 5), Frac(35, 3), Frac(18, 1)},
         k \in KellyFractions}
    \cup {[type |-> "color", odds |-> Frac(1, 1), strategy |-> "defensive",
           kelly |-> 10],
          [type |-> "split", odds |-> Frac(17, 1), strategy |-> "aggressive",
           kelly |-> 10]}

\* AdvancedBettingStrategy.calculate_bet_size: the Kelly fraction times 1.2
\* (progressive, on a winning streak) or 0.7 (defensive, or bankroll below
\* 0.8 * starting_bankroll), times the bankroll, kept between min_bet = 1 and
\* max_bet = 0.1 * bankroll.
calculate_bet_size(f, kelly, name) ==
    LET adjusted == IF name = "progressive" /\ f.win_streak > 1 THEN kelly * 12
                    ELSE IF name = "defensive"
                            \/ 5 * f.bankroll < 4 * f.starting_bankroll
                         THEN kelly * 7
                         ELSE kelly * 10
        bet_size == (f.bankroll * adjusted) \div 10000
        max_bet == f.bankroll \div 10
    IN  Max(Unit, Min(max_bet, bet_size))

\* The stop conditions execute_strategy checks at the start of an iteration.
Bankrupt(f) == f.bankroll <= 0

ReachedProfitTargetStrict(f) == 2 * f.bankroll > 3 * f.starting_bankroll

\* self.bankroll >= self.starting_bankroll * (1 + self.target_profit), with
\* target_profit = 0.5
ReachedProfitTarget(f) == 2 * f.bankroll >= 3 * f.starting_bankroll

\* 1 - (self.bankroll / self.peak_bankroll) > self.max_drawdown, with
\* max_drawdown = 0.25; evaluated only when the bankroll, and so the peak, is
\* positive.
HitDrawdownLimit(f) == 4 * (f.peak_bankroll - f.bankroll) > f.peak_bankroll

StopConditions(f) ==
    Bankrupt(f) \/ ReachedProfitTarget(f) \/ HitDrawdownLimit(f)

\* AdvancedBettingStrategy(bankroll) followed by the statements of
\* execute_strategy before its loop.  max_drawdown_seen, which the method
\* writes and never reads, is left out, and so are the Kelly and Bayes
\* objects and the analyzer: they decide which bet is selected, and the model
\* draws that bet from AdvancedBets.
ExecuteStrategyCall(bankroll, spins_arg) ==
    [fn |-> "execute_strategy",
     starting_bankroll |-> bankroll * Unit,
     max_spins |-> spins_arg,
     bankroll |-> bankroll * Unit,
     peak_bankroll |-> bankroll * Unit,
     win_streak |-> 0,
     loss_streak |-> 0,
     strategy_type |-> "flat",
     spins_played |-> 0,
     results |-> <<>>,
     returned |-> <<>>]

\* The body of the loop after the stop conditions, for the selected bet and
\* the outcome won.
ExecuteStrategyIteration(f, bet, won) ==
    LET name == IF bet.strategy = "strategy_type" THEN f.strategy_type
                ELSE bet.strategy
        selected == calculate_bet_size(f, bet.kelly, name)
        defensive == 5 * f.bankroll < f.starting_bankroll
        progressive == 2 * f.bankroll > 3 * f.starting_bankroll
        bet_size == IF defensive THEN Min(selected, f.bankroll \div 20)
                    ELSE selected
        after == IF won THEN f.bankroll + (bet_size * bet.odds.num) \div bet.odds.den
                 ELSE f.bankroll - bet_size
    IN  [f EXCEPT !.strategy_type = IF defensive THEN "defensive"
                                    ELSE IF progressive THEN "progressive"
                                    ELSE "flat",
                  !.spins_played = @ + 1,
                  !.bankroll = after,
                  !.win_streak = IF won THEN @ + 1 ELSE 0,
                  !.loss_streak = IF won THEN 0 ELSE @ + 1,
                  !.peak_bankroll = Max(@, after),
                  !.results = Append(@, <<after, won>>)]

InitExecuteStrategy ==
    /\ \E bankroll \in 0 .. MaxStartingBankroll, spins_arg \in 0 .. MaxSpinsInput :
          frame = ExecuteStrategyCall(bankroll, spins_arg)
    /\ history = NoHistory
    /\ spins = <<>>
    /\ bankroll_history = <<>>
    /\ keep_spins = FALSE
    /\ twin = NoTwin
    /\ strategy = NoStrategy
    /\ is_active = FALSE
    /\ total_spins = 0
    /\ wins = 0
    /\ losses = 0
    /\ bets = EmptyBet
    /\ bankroll_at_bet = 0
    /\ number = -1
    /\ winnings = 0
    /\ max_spins = MaxSpinsInput
    /\ strategies = <<>>
    /\ num_simulations = 0
    /\ results = <<>>
    /\ analysis = <<>>
    /\ raised = "none"
    /\ pc = "execute_strategy"

\* One iteration of the while loop that passes the stop conditions: a bet is
\* selected, the analyzer spins, and the bankroll, the streaks, the peak and
\* the list of results are updated.
ExecuteStrategySpin ==
    /\ pc = "execute_strategy"
    /\ frame.spins_played < frame.max_spins
    /\ ~StopConditions(frame)
    /\ \E bet \in AdvancedBets, won \in BOOLEAN :
          frame' = ExecuteStrategyIteration(frame, bet, won)
    /\ UNCHANGED <<raised, pc>>
    /\ UNCHANGED sessionVars

\* The loop ends, by its condition or by a break, and the list is returned.
ExecuteStrategyReturn ==
    /\ pc = "execute_strategy"
    /\ frame.spins_played >= frame.max_spins \/ StopConditions(frame)
    /\ frame' = [frame EXCEPT !.returned = <<frame.results>>]
    /\ pc' = "done"
    /\ UNCHANGED raised
    /\ UNCHANGED sessionVars

NextExecuteStrategy == ExecuteStrategySpin \/ ExecuteStrategyReturn

SpecExecuteStrategy == InitExecuteStrategy /\ [][NextExecuteStrategy]_vars

\* The highest bankroll of a call so far: the starting bankroll and the
\* bankrolls recorded in the first n results.
RECURSIVE C37_Peak(_, _)
C37_Peak(f, n) ==
    IF n = 0 THEN f.starting_bankroll
    ELSE Max(f.results[n][1], C37_Peak(f, n - 1))

\* A step that plays a spin starts with a bankroll above 0 and below 1.5 times
\* the starting bankroll, and with a drawdown from the highest bankroll so far
\* of at most 25%.
C37_SpinStep ==
    frame'.spins_played = frame.spins_played + 1 =>
        LET peak == C37_Peak(frame, Len(frame.results))
        IN  /\ frame.bankroll > 0
            /\ 2 * frame.bankroll < 3 * frame.starting_bankroll
            /\ 4 * (peak - frame.bankroll) <= peak

\* C37: execute_strategy plays at most max_spins spins, plays no spin in an
\* iteration that starts with bankroll <= 0, with bankroll >= 1.5 *
\* starting_bankroll or with a drawdown from the peak bankroll above 25%, and
\* the list it builds and returns has one entry per spin played.
C37_StopsBeforeSpin ==
    /\ [](/\ frame.spins_played <= frame.max_spins
          /\ Len(frame.results) = frame.spins_played
          /\ frame.returned # <<>> => Len(frame.returned[1]) = frame.spins_played)
    /\ [][C37_SpinStep]_vars

\* A call with a bankroll of 4 and max_spins = 3 that returned after two
\* losing bets of 1: the third iteration starts with a drawdown of 50%.
C37_Witness ==
    /\ pc = "done"
    /\ frame.max_spins = 3
    /\ frame.starting_bankroll = 4 * Unit
    /\ frame.returned = <<(<<(<<3 * Unit, FALSE>>), (<<2 * Unit, FALSE>>)>>)>>

====
